---- MODULE Spec2Model ----
(***************************************************************************)
(* ProofCapture CLI verifier: the verification pipeline                    *)
(* (verify_audio_and_manifest), the manifest model and its canonical       *)
(* encoder, the trust classifier and the sealed-bundle decoder.            *)
(*                                                                         *)
(* Conventions.  A String and a Vec<u8> are sequences of naturals (code    *)
(* points, bytes); every string of the model is ASCII, so as_bytes() is    *)
(* the identity on it.  A Result<T> is [ok |-> TRUE, v |-> t] or           *)
(* [ok |-> FALSE, err |-> e], e a VerifyError [kind, version].             *)
(* The library primitives are modelled by their contracts: SHA-256 as a    *)
(* collision-free hash, ECDSA and AES-GCM as ideal functionalities over    *)
(* the signatures and ciphertexts that were actually issued, PBKDF2 as a   *)
(* collision-free function of the HMAC key of the password, the salt and   *)
(* the iteration count.                                                    *)
(***************************************************************************)
EXTENDS Integers, Sequences, FiniteSets, TLC

(***************************************************************************)
(* Result<T> and VerifyError (error.rs).                                   *)
(***************************************************************************)
Ok(x) == [ok |-> TRUE, v |-> x, err |-> [kind |-> "none", version |-> 0]]

Err(e) == [ok |-> FALSE, v |-> <<>>, err |-> e]

VerifyError(kind) == [kind |-> kind, version |-> 0]

VersionError(kind, version) == [kind |-> kind, version |-> version]

ErrorKinds ==
  {"HashMismatch", "SignatureInvalid", "ManifestMalformed", "SchemaUnsupported",
   "AudioFileMissing", "AudioFileCorrupt", "DecryptionFailed", "BundleCorrupted",
   "UnsupportedBundleVersion", "Io", "Json", "Base64"}

(***************************************************************************)
(* Sequence helpers.                                                       *)
(***************************************************************************)
RECURSIVE FlattenRange(_, _, _)
\* ss[lo] \o ... \o ss[hi]
FlattenRange(ss, lo, hi) ==
  IF lo > hi THEN <<>>
  ELSE IF lo = hi THEN ss[lo]
  ELSE LET mid == (lo + hi) \div 2
       IN FlattenRange(ss, lo, mid) \o FlattenRange(ss, mid + 1, hi)

Flatten(ss) == FlattenRange(ss, 1, Len(ss))

\* Vec<String>::join
Join(ss, sep) ==
  Flatten([i \in 1..Len(ss) |-> IF i = 1 THEN ss[i] ELSE sep \o ss[i]])

Repeat(b, n) == [i \in 1..n |-> b]

RECURSIVE LexLessFrom(_, _, _)
LexLessFrom(a, b, i) ==
  IF i > Len(b) THEN FALSE
  ELSE IF i > Len(a) THEN TRUE
  ELSE IF a[i] # b[i] THEN a[i] < b[i]
  ELSE LexLessFrom(a, b, i + 1)

\* byte-wise string comparison (str::cmp), strict
LexLess(a, b) == LexLessFrom(a, b, 1)

(***************************************************************************)
(* base64::engine::general_purpose::STANDARD (crypto.rs:10).               *)
(***************************************************************************)
B64Char(i) ==
  IF i < 26 THEN 65 + i
  ELSE IF i < 52 THEN 97 + (i - 26)
  ELSE IF i < 62 THEN 48 + (i - 52)
  ELSE IF i = 62 THEN 43 ELSE 47

B64Index(c) ==
  IF c >= 65 /\ c <= 90 THEN c - 65
  ELSE IF c >= 97 /\ c <= 122 THEN c - 97 + 26
  ELSE IF c >= 48 /\ c <= 57 THEN c - 48 + 52
  ELSE IF c = 43 THEN 62
  ELSE IF c = 47 THEN 63
  ELSE -1

PadChar == 61

\* the 4 characters that encode the group of 1 to 3 bytes starting at bytes[i]
B64EncodeGroup(bytes, i) ==
  IF Len(bytes) = i THEN
    << B64Char(bytes[i] \div 4), B64Char((bytes[i] % 4) * 16), PadChar, PadChar >>
  ELSE IF Len(bytes) = i + 1 THEN
    << B64Char(bytes[i] \div 4),
       B64Char((bytes[i] % 4) * 16 + bytes[i + 1] \div 16),
       B64Char((bytes[i + 1] % 16) * 4), PadChar >>
  ELSE
    << B64Char(bytes[i] \div 4),
       B64Char((bytes[i] % 4) * 16 + bytes[i + 1] \div 16),
       B64Char((bytes[i + 1] % 16) * 4 + bytes[i + 2] \div 64),
       B64Char(bytes[i + 2] % 64) >>

\* BASE64.encode
Base64Encode(bytes) ==
  Flatten([g \in 1..((Len(bytes) + 2) \div 3) |-> B64EncodeGroup(bytes, 3 * g - 2)])

\* the decoded bytes of one 4-character group, or <<-1>> when the group is invalid;
\* last is TRUE for the final group, the only one that may carry padding
B64Group(s, i, last) ==
  LET g == [j \in 1..4 |-> s[i + j - 1]]
      a == B64Index(g[1])
      b == B64Index(g[2])
      c == B64Index(g[3])
      d == B64Index(g[4])
  IN IF a < 0 \/ b < 0 THEN << -1 >>
     ELSE IF g[3] = PadChar THEN
       IF last /\ g[4] = PadChar /\ b % 16 = 0 THEN << a * 4 + b \div 16 >> ELSE << -1 >>
     ELSE IF c < 0 THEN << -1 >>
     ELSE IF g[4] = PadChar THEN
       IF last /\ c % 4 = 0
       THEN << a * 4 + b \div 16, (b % 16) * 16 + c \div 4 >> ELSE << -1 >>
     ELSE IF d < 0 THEN << -1 >>
     ELSE << a * 4 + b \div 16, (b % 16) * 16 + c \div 4, (c % 4) * 64 + d >>

B64Groups(s) ==
  Flatten([g \in 1..(Len(s) \div 4) |-> B64Group(s, 4 * g - 3, 4 * g = Len(s))])

\* decode_base64: BASE64.decode(encoded).map_err(VerifyError::from)
decode_base64(encoded) ==
  IF Len(encoded) % 4 # 0 THEN Err(VerifyError("Base64"))
  ELSE LET out == B64Groups(encoded)
       IN IF \E i \in 1..Len(out) : out[i] < 0
          THEN Err(VerifyError("Base64"))
          ELSE Ok(out)

(***************************************************************************)
(* JSON value trees (serde_json::Value).  A node is [t |-> tag, v |-> x]:  *)
(* "null" (v = 0), "bool" (v a BOOLEAN), "num" (v = [f, n]: the integer n, *)
(* or the float n.0 when f), "str" (v a String), "arr" (v a sequence of    *)
(* nodes), "obj" (v a sequence of <<key, node>> members).                  *)
(***************************************************************************)
JNull == [t |-> "null", v |-> 0]

JBool(b) == [t |-> "bool", v |-> b]

JInt(n) == [t |-> "num", v |-> [f |-> FALSE, n |-> n]]

JFloat(n) == [t |-> "num", v |-> [f |-> TRUE, n |-> n]]

JStr(s) == [t |-> "str", v |-> s]

JArr(items) == [t |-> "arr", v |-> items]

JObj(members) == [t |-> "obj", v |-> members]

\* Map::get
HasKey(members, k) == \E i \in 1..Len(members) : members[i][1] = k

Get(members, k) == members[CHOOSE i \in 1..Len(members) : members[i][1] = k][2]

\* Map::remove
RECURSIVE Remove(_, _)
Remove(members, k) ==
  IF members = <<>> THEN <<>>
  ELSE IF Head(members)[1] = k THEN Remove(Tail(members), k)
  ELSE << Head(members) >> \o Remove(Tail(members), k)

RECURSIVE SetMember(_, _, _)
\* the members with the value of member k replaced
SetMember(members, k, node) ==
  IF members = <<>> THEN <<>>
  ELSE IF Head(members)[1] = k THEN << << k, node >> >> \o Tail(members)
  ELSE << Head(members) >> \o SetMember(Tail(members), k, node)

(***************************************************************************)
(* Number formatting: Number::to_string (itoa for integers, ryu for        *)
(* floats: a float of integral value n prints as "n.0").                   *)
(***************************************************************************)
RECURSIVE Digits(_)
Digits(n) == IF n < 10 THEN << 48 + n >> ELSE Digits(n \div 10) \o << 48 + (n % 10) >>

NumberToString(num) ==
  (IF num.n < 0 THEN << 45 >> \o Digits(-num.n) ELSE Digits(num.n))
  \o (IF num.f THEN << 46, 48 >> ELSE <<>>)

(***************************************************************************)
(* escape_json_string (manifest.rs:191-208).                               *)
(***************************************************************************)
HexDigit(d) == IF d < 10 THEN 48 + d ELSE 97 + (d - 10)

\* char::is_control: the Cc category, U+0000..U+001F and U+007F..U+009F
IsControl(c) == c < 32 \/ (c >= 127 /\ c <= 159)

\* a faulty variant: the forward slash is written as it is
EscapeChar_SlashUnescaped(c) ==
  IF c = 34 THEN << 92, 34 >>
  ELSE IF c = 92 THEN << 92, 92 >>
  ELSE IF c = 10 THEN << 92, 110 >>
  ELSE IF c = 13 THEN << 92, 114 >>
  ELSE IF c = 9 THEN << 92, 116 >>
  ELSE IF IsControl(c) THEN
    << 92, 117, HexDigit((c \div 4096) % 16), HexDigit((c \div 256) % 16),
       HexDigit((c \div 16) % 16), HexDigit(c % 16) >>
  ELSE << c >>

EscapeChar(c) ==
  IF c = 34 THEN << 92, 34 >>
  ELSE IF c = 92 THEN << 92, 92 >>
  ELSE IF c = 47 THEN << 92, 47 >>
  ELSE IF c = 10 THEN << 92, 110 >>
  ELSE IF c = 13 THEN << 92, 114 >>
  ELSE IF c = 9 THEN << 92, 116 >>
  ELSE IF IsControl(c) THEN
    << 92, 117, HexDigit((c \div 4096) % 16), HexDigit((c \div 256) % 16),
       HexDigit((c \div 16) % 16), HexDigit(c % 16) >>
  ELSE << c >>

escape_json_string(s) == Flatten([i \in 1..Len(s) |-> EscapeChar(s[i])])

(***************************************************************************)
(* canonicalize_json (manifest.rs:158-187).  It has no failing path: the   *)
(* Result it returns is always Ok, so the operator yields the String.      *)
(***************************************************************************)
RECURSIVE InsertSorted(_, _)
InsertSorted(sorted, m) ==
  IF sorted = <<>> THEN << m >>
  ELSE IF LexLess(m[1], Head(sorted)[1]) THEN << m >> \o sorted
  ELSE << Head(sorted) >> \o InsertSorted(Tail(sorted), m)

\* a faulty variant: the members are left in the order they were written
SortByKey_Unsorted(members) == members

RECURSIVE SortByKey(_)
\* sorted.sort_by(|a, b| a.0.cmp(b.0)): stable, ascending byte-wise key order
SortByKey(members) ==
  IF members = <<>> THEN <<>>
  ELSE InsertSorted(SortByKey(SubSeq(members, 1, Len(members) - 1)),
                    members[Len(members)])

RECURSIVE canonicalize_json(_)
canonicalize_json(value) ==
  IF value.t = "obj" THEN
    LET sorted == SortByKey(value.v)
        pairs == [i \in 1..Len(sorted) |->
                    << 34 >> \o sorted[i][1] \o << 34, 58 >>
                    \o canonicalize_json(sorted[i][2])]
    IN << 123 >> \o Join(pairs, << 44 >>) \o << 125 >>
  ELSE IF value.t = "arr" THEN
    LET items == [i \in 1..Len(value.v) |-> canonicalize_json(value.v[i])]
    IN << 91 >> \o Join(items, << 44 >>) \o << 93 >>
  ELSE IF value.t = "str" THEN << 34 >> \o escape_json_string(value.v) \o << 34 >>
  ELSE IF value.t = "num" THEN NumberToString(value.v)
  ELSE IF value.t = "bool" THEN
    (IF value.v THEN << 116, 114, 117, 101 >> ELSE << 102, 97, 108, 115, 101 >>)
  ELSE << 110, 117, 108, 108 >>

(***************************************************************************)
(* Primitives (crypto.rs).                                                 *)
(***************************************************************************)
\* Sha256::digest, as a collision-free hash: the digest determines the data
Sha256Digest(data) == << Len(data) % 256 >> \o data

\* a faulty variant: the hash does not see the high bit of a byte
sha256_base64_without_high_bits(data) ==
  Base64Encode(Sha256Digest([i \in 1..Len(data) |-> data[i] % 128]))

sha256_base64(data) == Base64Encode(Sha256Digest(data))

sha256_bytes(data) == Sha256Digest(data)

KeyLen == 64

SigLen == 64

\* the device keys: the raw x||y encodings taken to be points of P-256
DeviceKeys == { Repeat(1, KeyLen), Repeat(2, KeyLen) }

\* VerifyingKey::from_sec1_bytes(0x04 || raw): the point must lie on the curve
OnCurve(raw) == raw \in DeviceKeys

parse_public_key(raw_64_bytes) ==
  IF Len(raw_64_bytes) # KeyLen THEN Err(VerifyError("SignatureInvalid"))
  ELSE IF OnCurve(raw_64_bytes) THEN Ok(raw_64_bytes)
  ELSE Err(VerifyError("SignatureInvalid"))

\* the order n of the P-256 group, big-endian
OrderN ==
  << 255, 255, 255, 255, 0, 0, 0, 0, 255, 255, 255, 255, 255, 255, 255, 255, 188, 230, 250, 173, 167, 23, 158, 132, 243, 185, 202, 194, 252, 99, 37, 81 >>

\* a scalar of Signature::from_slice: non-zero and below the group order
ScalarOk(b) == (\E i \in 1..Len(b) : b[i] # 0) /\ LexLess(b, OrderN)

\* a faulty variant: any 64 bytes are taken for a signature
parse_signature_any_scalars(raw_64_bytes) ==
  IF Len(raw_64_bytes) # SigLen THEN Err(VerifyError("SignatureInvalid"))
  ELSE Ok(raw_64_bytes)

parse_signature(raw_64_bytes) ==
  IF Len(raw_64_bytes) # SigLen THEN Err(VerifyError("SignatureInvalid"))
  ELSE IF ScalarOk(SubSeq(raw_64_bytes, 1, 32)) /\ ScalarOk(SubSeq(raw_64_bytes, 33, 64))
       THEN Ok(raw_64_bytes)
  ELSE Err(VerifyError("SignatureInvalid"))

(***************************************************************************)
(* Manifest model (manifest.rs:12-111).                                    *)
(***************************************************************************)
CURRENT_SCHEMA_VERSION == 1

\* the member names of the wire format (serde rename_all = "camelCase")
Key ==
  [
    schemaVersion |-> <<115, 99, 104, 101, 109, 97, 86, 101, 114, 115, 105, 111, 110>>,
    audioHash |-> <<97, 117, 100, 105, 111, 72, 97, 115, 104>>,
    audioFormat |-> <<97, 117, 100, 105, 111, 70, 111, 114, 109, 97, 116>>,
    audioSizeBytes |-> <<97, 117, 100, 105, 111, 83, 105, 122, 101, 66, 121, 116, 101, 115>>,
    captureStart |-> <<99, 97, 112, 116, 117, 114, 101, 83, 116, 97, 114, 116>>,
    captureEnd |-> <<99, 97, 112, 116, 117, 114, 101, 69, 110, 100>>,
    durationSeconds |-> <<100, 117, 114, 97, 116, 105, 111, 110, 83, 101, 99, 111, 110, 100, 115>>,
    appVersion |-> <<97, 112, 112, 86, 101, 114, 115, 105, 111, 110>>,
    appBundleId |-> <<97, 112, 112, 66, 117, 110, 100, 108, 101, 73, 100>>,
    deviceKeyId |-> <<100, 101, 118, 105, 99, 101, 75, 101, 121, 73, 100>>,
    publicKey |-> <<112, 117, 98, 108, 105, 99, 75, 101, 121>>,
    trustVectors |-> <<116, 114, 117, 115, 116, 86, 101, 99, 116, 111, 114, 115>>,
    signature |-> <<115, 105, 103, 110, 97, 116, 117, 114, 101>>,
    location |-> <<108, 111, 99, 97, 116, 105, 111, 110>>,
    motion |-> <<109, 111, 116, 105, 111, 110>>,
    continuity |-> <<99, 111, 110, 116, 105, 110, 117, 105, 116, 121>>,
    clock |-> <<99, 108, 111, 99, 107>>,
    start |-> <<115, 116, 97, 114, 116>>,
    end |-> <<101, 110, 100>>,
    lat |-> <<108, 97, 116>>,
    lon |-> <<108, 111, 110>>,
    accuracy |-> <<97, 99, 99, 117, 114, 97, 99, 121>>,
    accelerationVariance |-> <<97, 99, 99, 101, 108, 101, 114, 97, 116, 105, 111, 110, 86, 97, 114, 105, 97, 110, 99, 101>>,
    rotationVariance |-> <<114, 111, 116, 97, 116, 105, 111, 110, 86, 97, 114, 105, 97, 110, 99, 101>>,
    duration |-> <<100, 117, 114, 97, 116, 105, 111, 110>>,
    sampleCount |-> <<115, 97, 109, 112, 108, 101, 67, 111, 117, 110, 116>>,
    uninterrupted |-> <<117, 110, 105, 110, 116, 101, 114, 114, 117, 112, 116, 101, 100>>,
    interruptionEvents |-> <<105, 110, 116, 101, 114, 114, 117, 112, 116, 105, 111, 110, 69, 118, 101, 110, 116, 115>>,
    timestamp |-> <<116, 105, 109, 101, 115, 116, 97, 109, 112>>,
    reason |-> <<114, 101, 97, 115, 111, 110>>,
    wallClockStart |-> <<119, 97, 108, 108, 67, 108, 111, 99, 107, 83, 116, 97, 114, 116>>,
    wallClockEnd |-> <<119, 97, 108, 108, 67, 108, 111, 99, 107, 69, 110, 100>>,
    monotonicDelta |-> <<109, 111, 110, 111, 116, 111, 110, 105, 99, 68, 101, 108, 116, 97>>,
    timeZone |-> <<116, 105, 109, 101, 90, 111, 110, 101>>
  ]

\* the member names of the sealed bundle and of its payload (sealed.rs:14-42)
BundleKey ==
  [
    version |-> <<118, 101, 114, 115, 105, 111, 110>>,
    salt |-> <<115, 97, 108, 116>>,
    nonce |-> <<110, 111, 110, 99, 101>>,
    kdfAlgorithm |-> <<107, 100, 102, 65, 108, 103, 111, 114, 105, 116, 104, 109>>,
    kdfParameters |-> <<107, 100, 102, 80, 97, 114, 97, 109, 101, 116, 101, 114, 115>>,
    encryptedPayload |-> <<101, 110, 99, 114, 121, 112, 116, 101, 100, 80, 97, 121, 108, 111, 97, 100>>,
    createdAt |-> <<99, 114, 101, 97, 116, 101, 100, 65, 116>>,
    iterations |-> <<105, 116, 101, 114, 97, 116, 105, 111, 110, 115>>,
    memory_cost_kb |-> <<109, 101, 109, 111, 114, 121, 95, 99, 111, 115, 116, 95, 107, 98>>,
    memoryCostKB |-> <<109, 101, 109, 111, 114, 121, 67, 111, 115, 116, 75, 66>>,
    parallelism |-> <<112, 97, 114, 97, 108, 108, 101, 108, 105, 115, 109>>,
    audioData |-> <<97, 117, 100, 105, 111, 68, 97, 116, 97>>,
    manifestData |-> <<109, 97, 110, 105, 102, 101, 115, 116, 68, 97, 116, 97>>,
    audioFilename |-> <<97, 117, 100, 105, 111, 70, 105, 108, 101, 110, 97, 109, 101>>
  ]

\* the struct types: <<member name, type, is an Option>>
Fields(ty) ==
  CASE ty = "SignedAudioManifest" ->
         << <<Key.schemaVersion, "i32", FALSE>>, <<Key.audioHash, "String", FALSE>>,
            <<Key.audioFormat, "String", FALSE>>, <<Key.audioSizeBytes, "i64", FALSE>>,
            <<Key.captureStart, "String", FALSE>>, <<Key.captureEnd, "String", FALSE>>,
            <<Key.durationSeconds, "f64", FALSE>>, <<Key.appVersion, "String", FALSE>>,
            <<Key.appBundleId, "String", FALSE>>, <<Key.deviceKeyId, "String", FALSE>>,
            <<Key.publicKey, "String", FALSE>>,
            <<Key.trustVectors, "TrustVectors", FALSE>>,
            <<Key.signature, "String", FALSE>> >>
    [] ty = "TrustVectors" ->
         << <<Key.location, "LocationVector", TRUE>>, <<Key.motion, "MotionVector", TRUE>>,
            <<Key.continuity, "ContinuityVector", TRUE>>, <<Key.clock, "ClockVector", TRUE>> >>
    [] ty = "LocationVector" ->
         << <<Key.start, "LocationSnapshot", FALSE>>, <<Key.end, "LocationSnapshot", FALSE>> >>
    [] ty = "LocationSnapshot" ->
         << <<Key.lat, "f64", FALSE>>, <<Key.lon, "f64", FALSE>>,
            <<Key.accuracy, "f64", FALSE>> >>
    [] ty = "MotionVector" ->
         << <<Key.accelerationVariance, "f64", FALSE>>,
            <<Key.rotationVariance, "f64", FALSE>>, <<Key.duration, "f64", FALSE>>,
            <<Key.sampleCount, "i32", FALSE>> >>
    [] ty = "ContinuityVector" ->
         << <<Key.uninterrupted, "bool", FALSE>>,
            <<Key.interruptionEvents, "Vec<InterruptionEvent>", FALSE>> >>
    [] ty = "InterruptionEvent" ->
         << <<Key.timestamp, "String", FALSE>>, <<Key.reason, "String", FALSE>> >>
    [] ty = "ClockVector" ->
         << <<Key.wallClockStart, "String", FALSE>>, <<Key.wallClockEnd, "String", FALSE>>,
            <<Key.monotonicDelta, "f64", FALSE>>, <<Key.timeZone, "String", FALSE>> >>
    [] ty = "SealedProofBundle" ->
         << <<BundleKey.version, "i32", FALSE>>, <<BundleKey.salt, "String", FALSE>>,
            <<BundleKey.nonce, "String", FALSE>>,
            <<BundleKey.kdfAlgorithm, "String", FALSE>>,
            <<BundleKey.kdfParameters, "KdfParameters", FALSE>>,
            <<BundleKey.encryptedPayload, "String", FALSE>>,
            <<BundleKey.createdAt, "String", FALSE>> >>
    [] ty = "KdfParameters" ->
         << <<BundleKey.iterations, "u32", FALSE>>,
            <<BundleKey.memory_cost_kb, "u32", FALSE>>,
            <<BundleKey.parallelism, "u32", FALSE>> >>
    [] ty = "DecryptedPayload" ->
         << <<BundleKey.audioData, "String", FALSE>>,
            <<BundleKey.manifestData, "String", FALSE>>,
            <<BundleKey.audioFilename, "String", FALSE>> >>

\* #[serde(alias = "memoryCostKB")]: the names a member is read from
Names(k) == IF k = BundleKey.memory_cost_kb THEN { k, BundleKey.memoryCostKB } ELSE { k }

\* the value of the member read from one of the names
Member(members, k) ==
  members[CHOOSE i \in 1..Len(members) : members[i][1] \in Names(k)][2]

Occurrences(members, k) ==
  Cardinality({ i \in 1..Len(members) : members[i][1] \in Names(k) })

RECURSIVE Deserializes(_, _)
\* whether serde's derived Deserialize accepts the node as a value of the type:
\* every member of a struct at most once, a required one exactly once, each of its
\* type; null or absence for an Option; members the struct does not name ignored
Deserializes(node, ty) ==
  CASE ty = "i32" ->
         node.t = "num" /\ ~node.v.f /\ node.v.n >= -2147483647 - 1 /\ node.v.n <= 2147483647
    [] ty = "i64" -> node.t = "num" /\ ~node.v.f
    \* u32: the numbers of the model stay below its upper limit
    [] ty = "u32" -> node.t = "num" /\ ~node.v.f /\ node.v.n >= 0
    [] ty = "f64" -> node.t = "num"
    [] ty = "String" -> node.t = "str"
    [] ty = "bool" -> node.t = "bool"
    [] ty = "Vec<InterruptionEvent>" ->
         node.t = "arr"
         /\ \A i \in 1..Len(node.v) : Deserializes(node.v[i], "InterruptionEvent")
    [] OTHER ->
         node.t = "obj"
         /\ \A i \in 1..Len(Fields(ty)) :
              LET f == Fields(ty)[i]
                  n == Occurrences(node.v, f[1])
              IN /\ n <= 1
                 /\ n = 0 => f[3]
                 /\ n = 1 => \/ f[3] /\ Member(node.v, f[1]).t = "null"
                             \/ Deserializes(Member(node.v, f[1]), f[2])

\* the whitespace serde_json skips between tokens
IsJsonWhitespace(b) == b \in {32, 9, 10, 13}

\* an Option<T> member of a struct: None when absent or null
OptionOf(members, k) ==
  IF HasKey(members, k) /\ Get(members, k).t # "null"
  THEN [some |-> TRUE, v |-> Get(members, k)]
  ELSE [some |-> FALSE, v |-> JNull]

RECURSIVE Typed(_, _)
\* the value of a struct type read from a node that deserializes as it: the members
\* the struct names, in the order it declares them
Typed(node, ty) ==
  IF ty \in { "i32", "i64", "u32", "f64", "String", "bool" } THEN node
  ELSE JObj([ i \in 1..Len(Fields(ty)) |->
              << Fields(ty)[i][1], Typed(Member(node.v, Fields(ty)[i][1]), Fields(ty)[i][2]) >> ])

\* an Option<T> member of a struct, T a struct type
OptionOfType(members, k, ty) ==
  IF OptionOf(members, k).some
  THEN [some |-> TRUE, v |-> Typed(OptionOf(members, k).v, ty)]
  ELSE OptionOf(members, k)

TrustVectorsOf(members) ==
  [ location |-> OptionOfType(members, Key.location, "LocationVector"),
    motion |-> OptionOfType(members, Key.motion, "MotionVector"),
    continuity |->
      LET c == OptionOf(members, Key.continuity)
      IN IF c.some
         THEN [some |-> TRUE,
               v |-> [uninterrupted |-> Get(c.v.v, Key.uninterrupted).v,
                      interruption_events |-> Get(c.v.v, Key.interruptionEvents).v]]
         ELSE [some |-> FALSE, v |-> [uninterrupted |-> FALSE, interruption_events |-> <<>>]],
    clock |-> OptionOfType(members, Key.clock, "ClockVector") ]

\* a faulty variant: a trustVectors member that does not deserialize is read as one
\* with no vectors
from_json_vectors_defaulted(json_bytes) ==
  IF ~IsJsonWhitespace(json_bytes.ws) THEN Err(VerifyError("ManifestMalformed"))
  ELSE IF ~Deserializes(JObj(SetMember(json_bytes.root.v, Key.trustVectors, JObj(<<>>))),
                        "SignedAudioManifest")
       THEN Err(VerifyError("ManifestMalformed"))
  ELSE LET m == json_bytes.root.v
       IN Ok([ schema_version |-> Get(m, Key.schemaVersion).v.n,
               audio_hash |-> Get(m, Key.audioHash).v,
               audio_format |-> Get(m, Key.audioFormat).v,
               audio_size_bytes |-> Get(m, Key.audioSizeBytes).v.n,
               capture_start |-> Get(m, Key.captureStart).v,
               capture_end |-> Get(m, Key.captureEnd).v,
               duration_seconds |-> Get(m, Key.durationSeconds).v.n,
               app_version |-> Get(m, Key.appVersion).v,
               app_bundle_id |-> Get(m, Key.appBundleId).v,
               device_key_id |-> Get(m, Key.deviceKeyId).v,
               public_key |-> Get(m, Key.publicKey).v,
               trust_vectors |->
                 IF Deserializes(Get(m, Key.trustVectors), "TrustVectors")
                 THEN TrustVectorsOf(Get(m, Key.trustVectors).v)
                 ELSE TrustVectorsOf(<<>>),
               signature |-> Get(m, Key.signature).v ])

\* SignedAudioManifest::from_json: serde_json::from_slice into the typed manifest
from_json(json_bytes) ==
  IF ~IsJsonWhitespace(json_bytes.ws) THEN Err(VerifyError("ManifestMalformed"))
  ELSE IF ~Deserializes(json_bytes.root, "SignedAudioManifest")
       THEN Err(VerifyError("ManifestMalformed"))
  ELSE LET m == json_bytes.root.v
       IN Ok([ schema_version |-> Get(m, Key.schemaVersion).v.n,
               audio_hash |-> Get(m, Key.audioHash).v,
               audio_format |-> Get(m, Key.audioFormat).v,
               audio_size_bytes |-> Get(m, Key.audioSizeBytes).v.n,
               capture_start |-> Get(m, Key.captureStart).v,
               capture_end |-> Get(m, Key.captureEnd).v,
               duration_seconds |-> Get(m, Key.durationSeconds).v.n,
               app_version |-> Get(m, Key.appVersion).v,
               app_bundle_id |-> Get(m, Key.appBundleId).v,
               device_key_id |-> Get(m, Key.deviceKeyId).v,
               public_key |-> Get(m, Key.publicKey).v,
               trust_vectors |-> TrustVectorsOf(Get(m, Key.trustVectors).v),
               signature |-> Get(m, Key.signature).v ])

\* a faulty variant: versions below 1 are refused as well
validate_schema_floor_at_one(manifest) ==
  IF manifest.schema_version # CURRENT_SCHEMA_VERSION
  THEN Err(VersionError("SchemaUnsupported", manifest.schema_version))
  ELSE Ok(<<>>)

\* a faulty variant: the ceiling is one version too high
validate_schema_ceiling_off_by_one(manifest) ==
  IF manifest.schema_version > CURRENT_SCHEMA_VERSION + 1
  THEN Err(VersionError("SchemaUnsupported", manifest.schema_version))
  ELSE Ok(<<>>)

\* SignedAudioManifest::validate_schema
validate_schema(manifest) ==
  IF manifest.schema_version > CURRENT_SCHEMA_VERSION
  THEN Err(VersionError("SchemaUnsupported", manifest.schema_version))
  ELSE Ok(<<>>)

RECURSIVE LastWins(_)
\* a Map built member by member: a repeated key keeps its last value
LastWins(members) ==
  IF members = <<>> THEN <<>>
  ELSE LET m == Head(members)
           rest == LastWins(Tail(members))
       IN IF HasKey(rest, m[1])
          THEN << << m[1], Get(rest, m[1]) >> >> \o Remove(rest, m[1])
          ELSE << m >> \o rest

RECURSIVE ToValue(_)
ToValue(node) ==
  IF node.t = "obj" THEN
    LET ms == LastWins(node.v)
    IN JObj([i \in 1..Len(ms) |-> << ms[i][1], ToValue(ms[i][2]) >>])
  ELSE IF node.t = "arr" THEN JArr([i \in 1..Len(node.v) |-> ToValue(node.v[i])])
  ELSE node

\* serde_json::from_slice::<Value>
ParseValue(json_bytes) ==
  IF ~IsJsonWhitespace(json_bytes.ws) THEN Err(VerifyError("ManifestMalformed"))
  ELSE Ok(ToValue(json_bytes.root))

\* serde_json::from_slice::<Value> on the bytes of a text: the JSON grammar, with
\* whitespace between tokens, the string escapes, no raw control character in a
\* string, no leading zero in a number, and nothing but whitespace after the value;
\* a repeated key keeps its last value.  The numbers of the model are the integers
\* and the floats of integral value "n.0"; the model has no text with another number.
ParseJson(text) ==
  LET n == Len(text)
      At(i) == IF i <= n THEN text[i] ELSE -1
      Failed == [ok |-> FALSE, v |-> JNull, next |-> 0]
      Done(node, next) == [ok |-> TRUE, v |-> node, next |-> next]
      IsDigit(c) == c >= 48 /\ c <= 57
      HexValue(c) ==
        IF c >= 48 /\ c <= 57 THEN c - 48
        ELSE IF c >= 97 /\ c <= 102 THEN c - 87
        ELSE IF c >= 65 /\ c <= 70 THEN c - 55
        ELSE -1
      RECURSIVE SkipWs(_)
      SkipWs(i) == IF IsJsonWhitespace(At(i)) THEN SkipWs(i + 1) ELSE i
      RECURSIVE StringFrom(_, _)
      \* the characters of a string from text[i] to its closing quote
      StringFrom(i, acc) ==
        LET c == At(i)
            e == At(i + 1)
        IN IF c = -1 \/ c < 32 THEN Failed
           ELSE IF c = 34 THEN Done(acc, i + 1)
           ELSE IF c # 92 THEN StringFrom(i + 1, Append(acc, c))
           ELSE IF e \in { 34, 92, 47 } THEN StringFrom(i + 2, Append(acc, e))
           ELSE IF e = 98 THEN StringFrom(i + 2, Append(acc, 8))
           ELSE IF e = 102 THEN StringFrom(i + 2, Append(acc, 12))
           ELSE IF e = 110 THEN StringFrom(i + 2, Append(acc, 10))
           ELSE IF e = 114 THEN StringFrom(i + 2, Append(acc, 13))
           ELSE IF e = 116 THEN StringFrom(i + 2, Append(acc, 9))
           ELSE IF e = 117 THEN
             LET h == [j \in 1..4 |-> HexValue(At(i + 1 + j))]
                 code == h[1] * 4096 + h[2] * 256 + h[3] * 16 + h[4]
             IN IF \E j \in 1..4 : h[j] < 0 THEN Failed
                \* a surrogate stands for a character only in a pair
                ELSE IF code >= 55296 /\ code <= 57343 THEN Failed
                ELSE StringFrom(i + 6, Append(acc, code))
           ELSE Failed
      RECURSIVE DigitsFrom(_, _)
      \* the run of digits from text[i]: its value and the index after it
      DigitsFrom(i, acc) ==
        IF IsDigit(At(i)) THEN DigitsFrom(i + 1, acc * 10 + (At(i) - 48))
        ELSE [v |-> acc, next |-> i]
      NumberAt(i) ==
        LET neg == At(i) = 45
            first == IF neg THEN i + 1 ELSE i
            int == DigitsFrom(first, 0)
            frac == DigitsFrom(int.next + 1, 0)
            signed == IF neg THEN -int.v ELSE int.v
        IN IF ~IsDigit(At(first)) THEN Failed
           ELSE IF At(first) = 48 /\ int.next > first + 1 THEN Failed
           ELSE IF At(int.next) = 46 THEN
             IF frac.next = int.next + 1 \/ frac.v # 0 \/ At(frac.next) \in { 101, 69 }
             THEN Failed
             ELSE Done(JFloat(signed), frac.next)
           ELSE IF At(int.next) \in { 101, 69 } \/ (neg /\ int.v = 0) THEN Failed
           ELSE Done(JInt(signed), int.next)
      Literal(i, word, node) ==
        IF /\ i + Len(word) - 1 <= n
           /\ SubSeq(text, i, i + Len(word) - 1) = word
        THEN Done(node, i + Len(word)) ELSE Failed
      RECURSIVE ValueAt(_)
      RECURSIVE MembersFrom(_, _)
      RECURSIVE ItemsFrom(_, _)
      \* the value that starts at text[i], after whitespace
      ValueAt(i0) ==
        LET i == SkipWs(i0)
            c == At(i)
        IN IF c = 123 THEN
             IF At(SkipWs(i + 1)) = 125 THEN Done(JObj(<<>>), SkipWs(i + 1) + 1)
             ELSE MembersFrom(i + 1, <<>>)
           ELSE IF c = 91 THEN
             IF At(SkipWs(i + 1)) = 93 THEN Done(JArr(<<>>), SkipWs(i + 1) + 1)
             ELSE ItemsFrom(i + 1, <<>>)
           ELSE IF c = 34 THEN
             LET str == StringFrom(i + 1, <<>>)
             IN IF str.ok THEN Done(JStr(str.v), str.next) ELSE Failed
           ELSE IF c = 116 THEN Literal(i, << 116, 114, 117, 101 >>, JBool(TRUE))
           ELSE IF c = 102 THEN Literal(i, << 102, 97, 108, 115, 101 >>, JBool(FALSE))
           ELSE IF c = 110 THEN Literal(i, << 110, 117, 108, 108 >>, JNull)
           ELSE NumberAt(i)
      \* the members of an object from the key that starts at text[i]
      MembersFrom(i0, acc) ==
        LET i == SkipWs(i0)
            k == IF At(i) = 34 THEN StringFrom(i + 1, <<>>) ELSE Failed
            colon == SkipWs(k.next)
            val == IF k.ok /\ At(colon) = 58 THEN ValueAt(colon + 1) ELSE Failed
            after == SkipWs(val.next)
            members == Append(acc, << k.v, val.v >>)
        IN IF ~val.ok THEN Failed
           ELSE IF At(after) = 44 THEN MembersFrom(after + 1, members)
           ELSE IF At(after) = 125 THEN Done(JObj(LastWins(members)), after + 1)
           ELSE Failed
      \* the elements of an array from the value that starts at text[i]
      ItemsFrom(i0, acc) ==
        LET val == ValueAt(i0)
            after == SkipWs(val.next)
            items == Append(acc, val.v)
        IN IF ~val.ok THEN Failed
           ELSE IF At(after) = 44 THEN ItemsFrom(after + 1, items)
           ELSE IF At(after) = 93 THEN Done(JArr(items), after + 1)
           ELSE Failed
      root == ValueAt(1)
  IN IF root.ok /\ SkipWs(root.next) = n + 1 THEN Ok(root.v)
     ELSE Err(VerifyError("ManifestMalformed"))

\* compute_canonical_hash_from_bytes (manifest.rs:141-155)
compute_canonical_hash_from_bytes(json_bytes) ==
  LET parsed == ParseValue(json_bytes)
  IN IF ~parsed.ok THEN parsed
     ELSE LET value == IF parsed.v.t = "obj"
                       THEN JObj(Remove(parsed.v.v, Key.signature))
                       ELSE parsed.v
              canonical == canonicalize_json(value)
          IN Ok(sha256_bytes(canonical))

(***************************************************************************)
(* Trust classifier (trust.rs:71-87).                                      *)
(***************************************************************************)
\* a faulty variant: an absent continuity vector counts as uninterrupted
compute_trust_level_absent_is_uninterrupted(vectors) ==
  LET has_location == vectors.location.some
      has_motion == vectors.motion.some
      is_uninterrupted ==
        IF vectors.continuity.some THEN vectors.continuity.v.uninterrupted ELSE TRUE
  IN IF has_location /\ has_motion /\ is_uninterrupted THEN "A"
     ELSE IF has_location /\ has_motion THEN "B"
     ELSE "C"

\* a faulty variant: an interrupted recording is Level C whatever else was captured
compute_trust_level_interrupted_is_lowest(vectors) ==
  LET has_location == vectors.location.some
      has_motion == vectors.motion.some
      is_uninterrupted ==
        IF vectors.continuity.some THEN vectors.continuity.v.uninterrupted ELSE FALSE
  IN IF has_location /\ has_motion /\ is_uninterrupted THEN "A"
     ELSE IF vectors.continuity.some /\ ~is_uninterrupted THEN "C"
     ELSE IF has_location /\ has_motion THEN "B"
     ELSE "C"

\* the order of the levels: "Level A is highest, Level C is lowest"
LevelRank(level) == CASE level = "C" -> 0 [] level = "B" -> 1 [] level = "A" -> 2

compute_trust_level(vectors) ==
  LET has_location == vectors.location.some
      has_motion == vectors.motion.some
      is_uninterrupted ==
        IF vectors.continuity.some THEN vectors.continuity.v.uninterrupted ELSE FALSE
  IN IF has_location /\ has_motion /\ is_uninterrupted THEN "A"
     ELSE IF has_location /\ has_motion THEN "B"
     ELSE "C"

(***************************************************************************)
(* The recordings the device produces.  A manifest file is modelled at the *)
(* level of its tokens: json_bytes = [ws, root], ws the byte that          *)
(* separates two tokens and root the document tree in member order.  The   *)
(* separator does not stand next to a number, so a byte other than JSON    *)
(* whitespace in its place makes the text invalid JSON.                    *)
(***************************************************************************)
Text ==
  [ aac |-> <<97, 97, 99>>, t0 |-> <<50, 48, 50, 52, 45, 48, 49, 45, 48, 49, 84, 48, 48, 58, 48, 48, 58, 48, 48, 90>>, t1 |-> <<50, 48, 50, 52, 45, 48, 49, 45, 48, 49, 84, 48, 48, 58, 48, 49, 58, 48, 48, 90>>, v1 |-> <<49, 46, 48, 46, 48>>, v2 |-> <<50, 46, 48, 46, 48>>,
    bundle |-> <<99, 111, 109, 46, 98, 101, 115, 116, 100, 97, 121, 108, 97, 98, 115, 46, 112, 114, 111, 111, 102, 97, 117, 100, 105, 111>>, key1 |-> <<107, 101, 121, 47, 49>>, tz |-> <<85, 84, 67>>, note |-> <<99, 97, 108, 108>>, junk |-> <<33, 33>> ]

AudioSamples == { << 82 >>, << 82, 73 >> }

Snapshot == JObj(<< <<Key.lat, JFloat(37)>>, <<Key.lon, JFloat(-122)>>,
                    <<Key.accuracy, JFloat(65)>> >>)

LocationNode == JObj(<< <<Key.start, Snapshot>>, <<Key.end, Snapshot>> >>)

MotionNode ==
  JObj(<< <<Key.accelerationVariance, JFloat(0)>>, <<Key.rotationVariance, JFloat(0)>>,
          <<Key.duration, JFloat(60)>>, <<Key.sampleCount, JInt(600)>> >>)

ContinuityNode(uninterrupted) ==
  JObj(<< <<Key.uninterrupted, JBool(uninterrupted)>>,
          <<Key.interruptionEvents,
            IF uninterrupted THEN JArr(<<>>)
            ELSE JArr(<< JObj(<< <<Key.timestamp, JStr(Text.t0)>>,
                                 <<Key.reason, JStr(Text.note)>> >>) >>)>> >>)

ClockNode ==
  JObj(<< <<Key.wallClockStart, JStr(Text.t0)>>, <<Key.wallClockEnd, JStr(Text.t1)>>,
          <<Key.monotonicDelta, JFloat(60)>>, <<Key.timeZone, JStr(Text.tz)>> >>)

\* the trustVectors member for a choice tv = [location, motion, continuity, clock] of
\* what was captured: continuity is "absent", "uninterrupted" or "interrupted"
TrustVectorsNode(tv) ==
  JObj((IF tv.location THEN << <<Key.location, LocationNode>> >> ELSE <<>>)
       \o (IF tv.motion THEN << <<Key.motion, MotionNode>> >> ELSE <<>>)
       \o (IF tv.continuity # "absent"
           THEN << <<Key.continuity, ContinuityNode(tv.continuity = "uninterrupted")>> >>
           ELSE <<>>)
       \o (IF tv.clock THEN << <<Key.clock, ClockNode>> >> ELSE <<>>))

TrustChoices ==
  [ location : BOOLEAN, motion : BOOLEAN,
    continuity : {"absent", "uninterrupted", "interrupted"}, clock : BOOLEAN ]

\* the signature the device with key k issues: r||s, both scalars valid
SignatureOf(k) == Repeat(k[1] + 16, SigLen)

\* the manifest the device writes for a recording, before it signs it
UnsignedManifest(audio, version, tv, key) ==
  << <<Key.schemaVersion, JInt(version)>>,
     <<Key.audioHash, JStr(sha256_base64(audio))>>,
     <<Key.audioFormat, JStr(Text.aac)>>,
     <<Key.audioSizeBytes, JInt(Len(audio))>>,
     <<Key.captureStart, JStr(Text.t0)>>,
     <<Key.captureEnd, JStr(Text.t1)>>,
     <<Key.durationSeconds, JFloat(60)>>,
     <<Key.appVersion, JStr(Text.v1)>>,
     <<Key.appBundleId, JStr(Text.bundle)>>,
     <<Key.deviceKeyId, JStr(Text.key1)>>,
     <<Key.publicKey, JStr(Base64Encode(key))>>,
     <<Key.trustVectors, TrustVectorsNode(tv)>> >>

SignedManifest(audio, version, tv, key, ws) ==
  [ ws |-> ws,
    root |-> JObj(UnsignedManifest(audio, version, tv, key)
                  \o << <<Key.signature, JStr(Base64Encode(SignatureOf(key)))>> >>) ]

(***************************************************************************)
(* State.                                                                  *)
(***************************************************************************)
VARIABLES
  audio_bytes,     \* verify_audio_and_manifest: the audio argument
  manifest_bytes,  \* verify_audio_and_manifest: the manifest argument
  issued,          \* the signatures the devices issued: [pk, msg, sig]
  pc,              \* the position in verify_audio_and_manifest
  manifest,        \* verify.rs:100
  computed_hash,   \* verify.rs:106
  public_key,      \* verify.rs:113
  manifest_hash,   \* verify.rs:116
  signature,       \* verify.rs:120
  result,          \* the value verify_audio_and_manifest returned
  ran,             \* the checks executed by the current call, in order
  changed,         \* what was altered since the bundle was recorded
  baseOk,          \* the bundle as recorded verified successfully
  tampers,         \* how many alterations were made
  bundle_bytes,    \* verify_and_extract_sealed_bundle: the bytes of the bundle file
  password,        \* verify_and_extract_sealed_bundle: the password argument
  encryptions,     \* what the devices encrypted: [key, combined, plaintext]
  spc,             \* the position in verify_and_extract_sealed_bundle
  bundle,          \* verify.rs:76
  salt,            \* sealed.rs:72
  key,             \* sealed.rs:75
  encrypted,       \* sealed.rs:78
  decrypted,       \* sealed.rs:81
  payload,         \* verify.rs:77
  sealed_result,   \* the value verify_and_extract_sealed_bundle returned
  sran,            \* the steps executed by that call, in order
  document,        \* compute_canonical_hash_from_bytes: the bytes it is called with
  cpc,             \* the position in compute_canonical_hash_from_bytes
  json_value,      \* manifest.rs:143, the Value parsed and then worked on
  canonical_text,  \* manifest.rs:152
  canonical_hash,  \* the value compute_canonical_hash_from_bytes returned
  previous,        \* the call before the current one: its bytes, tree, text and hash
  run_result,      \* main.rs:64, what run returned
  exit_status,     \* the exit code of the process, -1 while it runs
  previous_exit,   \* the run before the current one: what it returned and its exit code
  defect,          \* what is wrong with the manifest file that was handed in
  previous_sealed, \* the sealed call before the current one: its bundle and outcome
  extract_pc,      \* the position in run's extract workflow (main.rs:87-101)
  disk             \* the extract directory: whether it exists, and its files

inputVars == << audio_bytes, manifest_bytes, issued >>

localVars == << manifest, computed_hash, public_key, manifest_hash, signature >>

historyVars == << changed, baseOk, tampers >>

sealedInputVars == << bundle_bytes, password, encryptions >>

sealedLocalVars == << bundle, salt, key, encrypted, decrypted, payload >>

sealedVars == << sealedInputVars, spc, sealedLocalVars, sealed_result, sran >>

canonVars == << document, cpc, json_value, canonical_text, canonical_hash, previous >>

exitVars == << run_result, exit_status, previous_exit >>

extractVars == << previous_sealed, extract_pc, disk >>

pureVars == << canonVars, exitVars, defect, extractVars >>

vars == << inputVars, pc, localVars, result, ran, historyVars, sealedVars, pureVars >>

Unset == <<>>

NoResult == Err(VerifyError("none"))

\* nothing on the disk yet
NoDisk == [ dir |-> FALSE, files |-> {} ]

\* no second sealed call, no extract workflow
NotExtracting == previous_sealed = Unset /\ extract_pc = "none" /\ disk = NoDisk

\* a manifest file as the device wrote it
NoDefect == [ what |-> "none", path |-> <<>> ]

MaxTampers == 2

MaxVersion == 2

SchemaVersions == 0..MaxVersion

DeviceKey == Repeat(1, KeyLen)

\* Verifier::verify(message_hash, signature).is_ok(): a signature verifies under a
\* key for a message exactly when a device holding that key issued it for that message
\* a faulty variant: a signature of the key verifies over any message
verify_signature_any_message(pk, message_hash, sig) ==
  \E s \in issued : s.pk = pk /\ s.sig = sig

verify_signature(pk, message_hash, sig) ==
  [pk |-> pk, msg |-> message_hash, sig |-> sig] \in issued

CapturedVectors ==
  { [location |-> FALSE, motion |-> FALSE, continuity |-> "absent", clock |-> FALSE],
    [location |-> TRUE, motion |-> TRUE, continuity |-> "interrupted", clock |-> FALSE],
    [location |-> TRUE, motion |-> TRUE, continuity |-> "uninterrupted", clock |-> TRUE] }

\* the device recorded the audio and wrote and signed its manifest
Recorded(version, tv, ws) ==
  /\ audio_bytes = << 82 >>
  /\ manifest_bytes = SignedManifest(audio_bytes, version, tv, DeviceKey, ws)
  /\ issued =
       { [ pk |-> DeviceKey,
           msg |-> sha256_bytes(canonicalize_json(
                     JObj(UnsignedManifest(audio_bytes, version, tv, DeviceKey)))),
           sig |-> SignatureOf(DeviceKey) ] }

\* before the first call
NotCalled ==
  /\ pc = "idle"
  /\ manifest = Unset /\ computed_hash = Unset /\ public_key = Unset
  /\ manifest_hash = Unset /\ signature = Unset
  /\ result = NoResult
  /\ ran = <<>>
  /\ changed = {} /\ baseOk = FALSE /\ tampers = 0

\* no sealed bundle is involved
NotSealed ==
  /\ bundle_bytes = Unset /\ password = <<>> /\ encryptions = {}
  /\ spc = "none"
  /\ bundle = Unset /\ salt = Unset /\ key = Unset /\ encrypted = Unset
  /\ decrypted = Unset /\ payload = Unset
  /\ sealed_result = NoResult
  /\ sran = <<>>

\* no call of the canonical encoder on its own, no process exit
NotPure ==
  /\ document = Unset /\ cpc = "none" /\ json_value = Unset
  /\ canonical_text = Unset /\ canonical_hash = NoResult /\ previous = Unset
  /\ run_result = NoResult /\ exit_status = -1 /\ previous_exit = Unset
  /\ defect = NoDefect
  /\ NotExtracting

Init ==
  /\ \E version \in 1..MaxVersion, tv \in CapturedVectors, ws \in {32, 9} :
       Recorded(version, tv, ws)
  /\ NotCalled
  /\ NotSealed
  /\ NotPure

(***************************************************************************)
(* verify_audio_and_manifest (verify.rs:95-133), one action per check.     *)
(***************************************************************************)
\* return Err(e): the `?` and the explicit returns
Fail(step, e) ==
  /\ result' = Err(e)
  /\ pc' = "done"
  /\ ran' = Append(ran, step)
  /\ UNCHANGED << inputVars, historyVars, sealedVars, pureVars >>

Pass(step, next) ==
  /\ pc' = next
  /\ ran' = Append(ran, step)
  /\ UNCHANGED << inputVars, result, historyVars, sealedVars, pureVars >>

\* let manifest = SignedAudioManifest::from_json(manifest_bytes)?;
ParseManifest ==
  /\ pc = "idle"
  /\ spc \in { "none", "verify" }
  /\ LET r == from_json(manifest_bytes)
     IN IF r.ok
        THEN /\ manifest' = r.v
             /\ Pass("parse", "schema")
             /\ UNCHANGED << computed_hash, public_key, manifest_hash, signature >>
        ELSE Fail("parse", r.err) /\ UNCHANGED localVars

\* manifest.validate_schema()?;
ValidateSchema ==
  /\ pc = "schema"
  /\ LET r == validate_schema(manifest)
     IN IF r.ok THEN Pass("schema", "hash") ELSE Fail("schema", r.err)
  /\ UNCHANGED localVars

\* a faulty variant: only the lengths of the two hashes are compared
VerifyAudioHash_LengthOnly ==
  /\ pc = "hash"
  /\ computed_hash' = sha256_base64(audio_bytes)
  /\ IF Len(computed_hash') # Len(manifest.audio_hash)
     THEN Fail("hash", VerifyError("HashMismatch"))
     ELSE Pass("hash", "pubkey")
  /\ UNCHANGED << manifest, public_key, manifest_hash, signature >>

\* a faulty variant: the audio hash is computed and never compared
VerifyAudioHash_NotCompared ==
  /\ pc = "hash"
  /\ computed_hash' = sha256_base64(audio_bytes)
  /\ Pass("hash", "pubkey")
  /\ UNCHANGED << manifest, public_key, manifest_hash, signature >>

\* Step 1: Verify audio hash
VerifyAudioHash ==
  /\ pc = "hash"
  /\ computed_hash' = sha256_base64(audio_bytes)
  /\ IF computed_hash' # manifest.audio_hash
     THEN Fail("hash", VerifyError("HashMismatch"))
     ELSE Pass("hash", "pubkey")
  /\ UNCHANGED << manifest, public_key, manifest_hash, signature >>

\* Step 2: Parse public key
ParsePublicKey ==
  /\ pc = "pubkey"
  /\ LET public_key_bytes == decode_base64(manifest.public_key)
         parsed == parse_public_key(public_key_bytes.v)
     IN IF ~public_key_bytes.ok
        THEN Fail("pubkey", public_key_bytes.err) /\ UNCHANGED public_key
        ELSE IF ~parsed.ok
        THEN Fail("pubkey", parsed.err) /\ UNCHANGED public_key
        ELSE public_key' = parsed.v /\ Pass("pubkey", "canon")
  /\ UNCHANGED << manifest, computed_hash, manifest_hash, signature >>

\* Step 3: Compute canonical manifest hash
ComputeCanonicalHash ==
  /\ pc = "canon"
  /\ LET r == compute_canonical_hash_from_bytes(manifest_bytes)
     IN IF r.ok
        THEN manifest_hash' = r.v /\ Pass("canon", "sig")
        ELSE Fail("canon", r.err) /\ UNCHANGED manifest_hash
  /\ UNCHANGED << manifest, computed_hash, public_key, signature >>

\* Step 4: Parse ... signature
ParseSignature ==
  /\ pc = "sig"
  /\ LET signature_bytes == decode_base64(manifest.signature)
         parsed == parse_signature(signature_bytes.v)
     IN IF ~signature_bytes.ok
        THEN Fail("sig", signature_bytes.err) /\ UNCHANGED signature
        ELSE IF ~parsed.ok
        THEN Fail("sig", parsed.err) /\ UNCHANGED signature
        ELSE signature' = parsed.v /\ Pass("sig", "verify")
  /\ UNCHANGED << manifest, computed_hash, public_key, manifest_hash >>

\* a faulty variant: the outcome of the signature verification is ignored
VerifySignature_Ignored ==
  /\ pc = "verify"
  /\ Pass("verify", "trust")
  /\ UNCHANGED localVars

\* Step 4: ... and verify signature
VerifySignature ==
  /\ pc = "verify"
  /\ IF ~verify_signature(public_key, manifest_hash, signature)
     THEN Fail("verify", VerifyError("SignatureInvalid"))
     ELSE Pass("verify", "trust")
  /\ UNCHANGED localVars

\* Step 5: Compute trust level, and Ok(VerificationResult { manifest, trust_level })
ComputeTrustLevel ==
  /\ pc = "trust"
  /\ result' = Ok([ manifest |-> manifest,
                    trust_level |-> compute_trust_level(manifest.trust_vectors) ])
  /\ pc' = "done"
  /\ ran' = Append(ran, "trust")
  /\ baseOk' = (baseOk \/ tampers = 0)
  /\ UNCHANGED << inputVars, localVars, changed, tampers, sealedVars, pureVars >>

Verify ==
  \/ ParseManifest \/ ValidateSchema \/ VerifyAudioHash \/ ParsePublicKey
  \/ ComputeCanonicalHash \/ ParseSignature \/ VerifySignature \/ ComputeTrustLevel

(***************************************************************************)
(* What happens to a bundle between two verifications: its audio or its    *)
(* manifest file is altered (verify.rs:284-336, the tests' tampering).     *)
(***************************************************************************)
Pow2(b) == 2 ^ b

FlipBit(byte, b) ==
  IF (byte \div Pow2(b)) % 2 = 1 THEN byte - Pow2(b) ELSE byte + Pow2(b)

RECURSIVE Reverse(_)
Reverse(s) == IF s = <<>> THEN <<>> ELSE Reverse(Tail(s)) \o << Head(s) >>

\* the values an altered member may take
Alternatives(name) ==
  CASE name = "schemaVersion" -> { JInt(v) : v \in SchemaVersions }
    [] name = "audioHash" ->
         { JStr(sha256_base64(a)) : a \in AudioSamples } \cup { JStr(Text.junk) }
    [] name = "appVersion" -> { JStr(Text.v1), JStr(Text.v2) }
    [] name = "publicKey" ->
         { JStr(Base64Encode(dk)) : dk \in DeviceKeys }
         \cup { JStr(Base64Encode(Repeat(0, KeyLen))),
                JStr(Base64Encode(Repeat(1, KeyLen - 1))), JStr(Text.junk) }
    [] name = "signature" ->
         { JStr(Base64Encode(SignatureOf(dk))) : dk \in DeviceKeys }
         \cup { JStr(Base64Encode(Repeat(0, SigLen))),
                JStr(Base64Encode(Repeat(255, SigLen))),
                JStr(Base64Encode(Repeat(17, SigLen - 1))), JStr(Text.junk) }
    [] name = "trustVectors" -> { TrustVectorsNode(tv) : tv \in CapturedVectors }

TamperedMembers ==
  { "schemaVersion", "audioHash", "appVersion", "publicKey", "signature", "trustVectors" }

BitFlips == { "audioBit", "whitespace" }

\* a bundle is altered between two calls; a single-bit flip is applied to a bundle
\* as it was recorded, and is the only alteration of that bundle
MayAlter(what) ==
  /\ pc = "done"
  /\ tampers < MaxTampers
  /\ what \notin changed
  /\ changed \cap BitFlips = {}
  /\ what \in BitFlips => changed = {}

\* a new call starts from fresh locals
Altered(what) ==
  /\ tampers' = tampers + 1
  /\ changed' = changed \cup {what}
  /\ pc' = "idle"
  /\ manifest' = Unset /\ computed_hash' = Unset /\ public_key' = Unset
  /\ manifest_hash' = Unset /\ signature' = Unset
  /\ result' = NoResult
  /\ ran' = <<>>
  /\ UNCHANGED << issued, baseOk, sealedVars, pureVars >>

\* one bit of the audio file flips
FlipAudioBit ==
  /\ MayAlter("audioBit")
  /\ \E i \in 1..Len(audio_bytes), b \in 0..7 :
       audio_bytes' = [audio_bytes EXCEPT ![i] = FlipBit(@, b)]
  /\ Altered("audioBit")
  /\ UNCHANGED manifest_bytes

\* the audio file is replaced by another recording
ReplaceAudio ==
  /\ MayAlter("audio")
  /\ \E a \in AudioSamples : a # audio_bytes /\ audio_bytes' = a
  /\ Altered("audio")
  /\ UNCHANGED manifest_bytes

\* one bit of the byte between the manifest's tokens flips
FlipWhitespaceBit ==
  /\ MayAlter("whitespace")
  /\ \E b \in 0..7 :
       manifest_bytes' = [manifest_bytes EXCEPT !.ws = FlipBit(@, b)]
  /\ Altered("whitespace")
  /\ UNCHANGED audio_bytes

\* the value of one member of the manifest is changed
ChangeMember ==
  /\ \E name \in TamperedMembers :
       /\ MayAlter(name)
       /\ \E node \in Alternatives(name) :
            /\ node # Get(manifest_bytes.root.v, Key[name])
            /\ manifest_bytes' =
                 [manifest_bytes EXCEPT !.root.v = SetMember(@, Key[name], node)]
       /\ Altered(name)
  /\ UNCHANGED audio_bytes

\* a member the typed manifest does not know is added
AddUnknownMember ==
  /\ MayAlter("unknown")
  /\ manifest_bytes' =
       [manifest_bytes EXCEPT !.root.v = Append(@, << Text.note, JStr(Text.note) >>)]
  /\ Altered("unknown")
  /\ UNCHANGED audio_bytes

\* the members are written in another order
ReorderMembers ==
  /\ MayAlter("order")
  /\ manifest_bytes' = [manifest_bytes EXCEPT !.root.v = Reverse(@)]
  /\ Altered("order")
  /\ UNCHANGED audio_bytes

Tamper ==
  \/ FlipAudioBit \/ ReplaceAudio \/ FlipWhitespaceBit \/ ChangeMember
  \/ AddUnknownMember \/ ReorderMembers

Next == Verify \/ Tamper

Spec == Init /\ [][Next]_vars

(***************************************************************************)
(* Manifest files that are not what the device wrote: one member missing,  *)
(* null, of another type, repeated or unknown, at the root, in             *)
(* trustVectors or in one of the vectors.                                  *)
(***************************************************************************)
\* a value of another JSON type
Mistyped(node) == IF node.t = "str" THEN JInt(1) ELSE JStr(Text.junk)

RECURSIVE Damage(_, _, _)
\* the object with the member at the path damaged; an unknown member is added to the
\* object at the path
Damage(node, path, what) ==
  IF what = "none" THEN node
  ELSE IF path = <<>> THEN JObj(Append(node.v, << Text.note, JStr(Text.note) >>))
  ELSE IF Len(path) = 1 /\ what # "unknown"
       THEN LET k == path[1]
                old == Get(node.v, k)
            IN JObj(CASE what = "missing" -> Remove(node.v, k)
                      [] what = "null" -> SetMember(node.v, k, JNull)
                      [] what = "mistyped" -> SetMember(node.v, k, Mistyped(old))
                      [] what = "fraction" -> SetMember(node.v, k, JFloat(old.v.n))
                      [] what = "repeated" -> Append(node.v, << k, old >>))
  ELSE JObj(SetMember(node.v, path[1],
                      Damage(Get(node.v, path[1]), Tail(path), what)))

\* the paths of the members of SignedAudioManifest
RootPaths ==
  { << Fields("SignedAudioManifest")[i][1] >> :
      i \in 1..Len(Fields("SignedAudioManifest")) }

\* the paths of the four vectors of TrustVectors
VectorPaths ==
  { << Key.trustVectors, Fields("TrustVectors")[i][1] >> :
      i \in 1..Len(Fields("TrustVectors")) }

\* the paths of the members of the four vectors
InnerPaths ==
  UNION { { << Key.trustVectors, Fields("TrustVectors")[i][1],
               Fields(Fields("TrustVectors")[i][2])[j][1] >> :
              j \in 1..Len(Fields(Fields("TrustVectors")[i][2])) } :
          i \in 1..Len(Fields("TrustVectors")) }

ManifestDefects ==
  { NoDefect }
  \cup [ what : { "missing", "null", "mistyped", "repeated" },
         path : RootPaths \cup VectorPaths \cup InnerPaths ]
  \cup [ what : { "fraction" },
         path : { << Key.schemaVersion >>, << Key.audioSizeBytes >> } ]
  \cup [ what : { "unknown" }, path : { <<>>, << Key.trustVectors >> } \cup VectorPaths ]

\* every vector captured, the recording uninterrupted
AllVectors ==
  [ location |-> TRUE, motion |-> TRUE, continuity |-> "uninterrupted", clock |-> TRUE ]

\* the manifest file as the device wrote it
Undamaged == SignedManifest(<< 82 >>, CURRENT_SCHEMA_VERSION, AllVectors, DeviceKey, 32)

\* a recording whose manifest file has one defect, or a byte that is not JSON
\* between its tokens
InitManifest ==
  /\ \E d \in ManifestDefects, ws \in { 32, 10, 120 } :
       /\ defect = d
       /\ NotExtracting
       /\ audio_bytes = << 82 >>
       /\ manifest_bytes = [ ws |-> ws, root |-> Damage(Undamaged.root, d.path, d.what) ]
       /\ issued =
            { [ pk |-> DeviceKey,
                msg |-> sha256_bytes(canonicalize_json(
                          JObj(UnsignedManifest(audio_bytes, CURRENT_SCHEMA_VERSION,
                                                AllVectors, DeviceKey)))),
                sig |-> SignatureOf(DeviceKey) ] }
  /\ NotCalled
  /\ NotSealed
  /\ document = Unset /\ cpc = "none" /\ json_value = Unset
  /\ canonical_text = Unset /\ canonical_hash = NoResult /\ previous = Unset
  /\ run_result = NoResult /\ exit_status = -1 /\ previous_exit = Unset

SpecManifest == InitManifest /\ [][Verify]_vars

\* how many versions below 0 a device may have written
NegativeVersions == 2

\* recordings of every schema version from the negative ones to those above the
\* ceiling, each signed by the device as written; the audio file is the one
\* recorded or another one
InitSchema ==
  /\ \E version \in (-NegativeVersions)..MaxVersion, tv \in TrustChoices :
       /\ manifest_bytes = SignedManifest(<< 82 >>, version, tv, DeviceKey, 32)
       /\ issued =
            { [ pk |-> DeviceKey,
                msg |-> sha256_bytes(canonicalize_json(
                          JObj(UnsignedManifest(<< 82 >>, version, tv, DeviceKey)))),
                sig |-> SignatureOf(DeviceKey) ] }
  /\ audio_bytes \in AudioSamples
  /\ NotCalled
  /\ NotSealed
  /\ NotPure

SpecSchema == InitSchema /\ [][Verify]_vars

\* recordings with every combination of trust vectors, verified as recorded
InitTrust ==
  /\ \E tv \in TrustChoices : Recorded(CURRENT_SCHEMA_VERSION, tv, 32)
  /\ NotCalled
  /\ NotSealed
  /\ NotPure

NextTrust == Verify

SpecTrust == InitTrust /\ [][NextTrust]_vars

(***************************************************************************)
(* Sealed bundles (sealed.rs, crypto.rs:69-95, verify.rs:71-92).           *)
(***************************************************************************)
CURRENT_BUNDLE_VERSION == 1

\* the key HMAC-SHA256 works with: a key longer than the 64-byte block is hashed
\* first, and the key is then padded with zero bytes to the block
HmacKey(k) ==
  LET short == IF Len(k) > 64 THEN Sha256Digest(k) ELSE k
  IN IF Len(short) >= 64 THEN short ELSE short \o Repeat(0, 64 - Len(short))

\* a faulty variant: the key does not depend on the password
derive_key_pbkdf2_without_password(pw, salt_bytes, iterations) ==
  [ hmac_key |-> HmacKey(<<>>), salt |-> salt_bytes, iterations |-> iterations ]

\* pbkdf2_hmac::<Sha256>, as a collision-free function of what it computes from:
\* the HMAC key of the password, the salt and the iteration count
derive_key_pbkdf2(pw, salt_bytes, iterations) ==
  [ hmac_key |-> HmacKey(pw), salt |-> salt_bytes, iterations |-> iterations ]

\* a faulty variant: the minimum length is one byte too high
decrypt_aes_gcm_minimum_29(k, combined) ==
  IF Len(combined) < 29 THEN Err(VerifyError("BundleCorrupted"))
  ELSE IF \E e \in encryptions : e.key = k /\ e.combined = combined
  THEN Ok((CHOOSE e \in encryptions : e.key = k /\ e.combined = combined).plaintext)
  ELSE Err(VerifyError("DecryptionFailed"))

\* AES-256-GCM authenticates exactly what was encrypted under the same key
decrypt_aes_gcm(k, combined) ==
  IF Len(combined) < 28 THEN Err(VerifyError("BundleCorrupted"))
  ELSE IF \E e \in encryptions : e.key = k /\ e.combined = combined
  THEN Ok((CHOOSE e \in encryptions : e.key = k /\ e.combined = combined).plaintext)
  ELSE Err(VerifyError("DecryptionFailed"))

\* SealedProofBundle::from_json
bundle_from_json(json_bytes) ==
  IF ~IsJsonWhitespace(json_bytes.ws) THEN Err(VerifyError("BundleCorrupted"))
  ELSE IF ~Deserializes(json_bytes.root, "SealedProofBundle")
       THEN Err(VerifyError("BundleCorrupted"))
  ELSE LET m == json_bytes.root.v
           k == Get(m, BundleKey.kdfParameters).v
       IN Ok([ version |-> Get(m, BundleKey.version).v.n,
               salt |-> Get(m, BundleKey.salt).v,
               nonce |-> Get(m, BundleKey.nonce).v,
               kdf_algorithm |-> Get(m, BundleKey.kdfAlgorithm).v,
               kdf_parameters |->
                 [ iterations |-> Get(k, BundleKey.iterations).v.n,
                   memory_cost_kb |-> Member(k, BundleKey.memory_cost_kb).v.n,
                   parallelism |-> Get(k, BundleKey.parallelism).v.n ],
               encrypted_payload |-> Get(m, BundleKey.encryptedPayload).v,
               created_at |-> Get(m, BundleKey.createdAt).v ])

\* a faulty variant: the ceiling is one version too high
validate_version_ceiling_off_by_one(b) ==
  IF b.version > CURRENT_BUNDLE_VERSION + 1
  THEN Err(VersionError("UnsupportedBundleVersion", b.version))
  ELSE Ok(<<>>)

\* SealedProofBundle::validate_version
validate_version(b) ==
  IF b.version > CURRENT_BUNDLE_VERSION
  THEN Err(VersionError("UnsupportedBundleVersion", b.version))
  ELSE Ok(<<>>)

\* a faulty variant: a plaintext of another shape is reported as a failed decryption
payload_from_json_as_decryption_failure(json_bytes) ==
  IF ~IsJsonWhitespace(json_bytes.ws) THEN Err(VerifyError("DecryptionFailed"))
  ELSE IF ~Deserializes(json_bytes.root, "DecryptedPayload")
       THEN Err(VerifyError("DecryptionFailed"))
  ELSE LET m == json_bytes.root.v
       IN Ok([ audio_data |-> Get(m, BundleKey.audioData).v,
               manifest_data |-> Get(m, BundleKey.manifestData).v,
               audio_filename |-> Get(m, BundleKey.audioFilename).v ])

\* serde_json::from_slice::<DecryptedPayload> (sealed.rs:84-85)
payload_from_json(json_bytes) ==
  IF ~IsJsonWhitespace(json_bytes.ws) THEN Err(VerifyError("BundleCorrupted"))
  ELSE IF ~Deserializes(json_bytes.root, "DecryptedPayload")
       THEN Err(VerifyError("BundleCorrupted"))
  ELSE LET m == json_bytes.root.v
       IN Ok([ audio_data |-> Get(m, BundleKey.audioData).v,
               manifest_data |-> Get(m, BundleKey.manifestData).v,
               audio_filename |-> Get(m, BundleKey.audioFilename).v ])

RECURSIVE Serialize(_, _)
\* the bytes of a JSON file: the tree written in member order, the byte ws after
\* every ':' and ','
Serialize(node, ws) ==
  IF node.t = "obj" THEN
    LET pairs == [i \in 1..Len(node.v) |->
                    << 34 >> \o escape_json_string(node.v[i][1]) \o << 34, 58, ws >>
                    \o Serialize(node.v[i][2], ws)]
    IN << 123 >> \o Join(pairs, << 44, ws >>) \o << 125 >>
  ELSE IF node.t = "arr" THEN
    LET items == [i \in 1..Len(node.v) |-> Serialize(node.v[i], ws)]
    IN << 91 >> \o Join(items, << 44, ws >>) \o << 93 >>
  ELSE IF node.t = "str" THEN << 34 >> \o escape_json_string(node.v) \o << 34 >>
  ELSE IF node.t = "num" THEN NumberToString(node.v)
  ELSE IF node.t = "bool" THEN
    (IF node.v THEN << 116, 114, 117, 101 >> ELSE << 102, 97, 108, 115, 101 >>)
  ELSE << 110, 117, 108, 108 >>

ManifestFile(tv) == SignedManifest(<< 82 >>, CURRENT_SCHEMA_VERSION, tv, DeviceKey, 32)

\* the tokens of the bytes of a manifest file: the files of the model are those the
\* device wrote; other bytes are not JSON
Tokens(bytes) ==
  IF \E tv \in CapturedVectors : Serialize(ManifestFile(tv).root, 32) = bytes
  THEN ManifestFile(CHOOSE tv \in CapturedVectors :
                      Serialize(ManifestFile(tv).root, 32) = bytes)
  ELSE [ ws |-> 0, root |-> JNull ]

\* the literal strings of the sealed bundles
SealedText ==
  [ pbkdf2 |-> << 112, 98, 107, 100, 102, 50 >>, argon2id |-> << 97, 114, 103, 111, 110, 50, 105, 100 >>,
    PBKDF2 |-> << 80, 66, 75, 68, 70, 50 >>,
    filename |-> << 97, 46, 109, 52, 97 >> ]

\* the password the device sealed the bundle with, and the passwords tried
SealingPassword == << 112, 119 >>

Passwords == { SealingPassword, SealingPassword \o << 0 >>, << 112, 120 >>, <<>> }

SaltBytes == Repeat(5, 32)

\* nonce || ciphertext || tag
Combined(ciphertext) == Repeat(7, 12) \o ciphertext \o Repeat(9, 16)

\* a payload: an audio and the manifest file of the recording, in base64
PayloadFileWith(audio, tv) ==
  [ ws |-> 32,
    root |-> JObj(<< <<BundleKey.audioData, JStr(Base64Encode(audio))>>,
                     <<BundleKey.manifestData,
                       JStr(Base64Encode(Serialize(ManifestFile(tv).root, 32)))>>,
                     <<BundleKey.audioFilename, JStr(SealedText.filename)>> >>) ]

\* the payload the device encrypts: the audio and the manifest file, in base64
PayloadFile(tv) == PayloadFileWith(<< 82 >>, tv)

MaxBundleVersion == 2

\* the values the members of a bundle file take
BundleVersions == 0..MaxBundleVersion

KdfAlgorithms == { SealedText.pbkdf2, SealedText.argon2id, SealedText.PBKDF2 }

Salts == { Base64Encode(SaltBytes), Text.junk }

\* the sealed payload, a sealed "null", a sealed payload with another audio, 27 and
\* 28 bytes of the sealed payload, and text that is not base64
EncryptedPayloads ==
  { Base64Encode(Combined(<< 1, 2, 3, 4 >>)), Base64Encode(Combined(<< 5, 6, 7, 8 >>)),
    Base64Encode(Combined(<< 9, 10, 11, 12 >>)),
    Base64Encode(SubSeq(Combined(<< 1, 2, 3, 4 >>), 1, 27)),
    Base64Encode(SubSeq(Combined(<< 1, 2, 3, 4 >>), 1, 28)), Text.junk }

BundleFile(version, kdf, salt_text, payload_text, ws) ==
  [ ws |-> ws,
    root |-> JObj(<< <<BundleKey.version, JInt(version)>>,
                     <<BundleKey.salt, JStr(salt_text)>>,
                     <<BundleKey.nonce, JStr(Base64Encode(Repeat(7, 12)))>>,
                     <<BundleKey.kdfAlgorithm, JStr(kdf)>>,
                     <<BundleKey.kdfParameters,
                       JObj(<< <<BundleKey.iterations, JInt(600000)>>,
                               <<BundleKey.memoryCostKB, JInt(0)>>,
                               <<BundleKey.parallelism, JInt(1)>> >>)>>,
                     <<BundleKey.encryptedPayload, JStr(payload_text)>>,
                     <<BundleKey.createdAt, JStr(Text.t0)>> >>) ]

\* the device signed the manifest and sealed the payload with SealingPassword; the
\* bundle file that arrives has any of the member values, the password tried is any
InitSealed ==
  /\ \E tv \in CapturedVectors :
       /\ issued =
            { [ pk |-> DeviceKey,
                msg |-> sha256_bytes(canonicalize_json(JObj(
                          UnsignedManifest(<< 82 >>, CURRENT_SCHEMA_VERSION, tv, DeviceKey)))),
                sig |-> SignatureOf(DeviceKey) ] }
       /\ encryptions =
            { [ key |-> derive_key_pbkdf2(SealingPassword, SaltBytes, 600000),
                combined |-> Combined(<< 1, 2, 3, 4 >>),
                plaintext |-> PayloadFile(tv) ],
              [ key |-> derive_key_pbkdf2(SealingPassword, SaltBytes, 600000),
                combined |-> Combined(<< 5, 6, 7, 8 >>),
                plaintext |-> [ ws |-> 32, root |-> JNull ] ],
              [ key |-> derive_key_pbkdf2(SealingPassword, SaltBytes, 600000),
                combined |-> Combined(<< 9, 10, 11, 12 >>),
                plaintext |-> PayloadFileWith(<< 82, 73 >>, tv) ] }
  /\ \E version \in BundleVersions, kdf \in KdfAlgorithms, salt_text \in Salts,
        payload_text \in EncryptedPayloads, ws \in { 32, 0 } :
       bundle_bytes = BundleFile(version, kdf, salt_text, payload_text, ws)
  /\ password \in Passwords
  /\ audio_bytes = Unset /\ manifest_bytes = Unset
  /\ NotCalled
  /\ spc = "bundle"
  /\ bundle = Unset /\ salt = Unset /\ key = Unset /\ encrypted = Unset
  /\ decrypted = Unset /\ payload = Unset
  /\ sealed_result = NoResult
  /\ sran = <<>>
  /\ NotPure

verifyVars == << pc, localVars, result, ran, historyVars >>

\* return Err(e)
SealedFail(step, e) ==
  /\ sealed_result' = Err(e)
  /\ spc' = "done"
  /\ sran' = Append(sran, step)
  /\ UNCHANGED << inputVars, verifyVars, sealedInputVars, pureVars >>

SealedPass(step, next) ==
  /\ spc' = next
  /\ sran' = Append(sran, step)
  /\ UNCHANGED << issued, verifyVars, sealedInputVars, sealed_result, pureVars >>

\* let bundle = SealedProofBundle::from_json(&bundle_bytes)?;
ParseBundle ==
  /\ spc = "bundle"
  /\ LET r == bundle_from_json(bundle_bytes)
     IN IF r.ok
        THEN /\ bundle' = r.v
             /\ SealedPass("bundle", "version")
             /\ UNCHANGED << salt, key, encrypted, decrypted, payload >>
        ELSE SealedFail("bundle", r.err) /\ UNCHANGED sealedLocalVars
  /\ UNCHANGED << audio_bytes, manifest_bytes >>

\* decrypt: self.validate_version()?;
ValidateVersion ==
  /\ spc = "version"
  /\ LET r == validate_version(bundle)
     IN IF r.ok THEN SealedPass("version", "kdf") ELSE SealedFail("version", r.err)
  /\ UNCHANGED << sealedLocalVars, audio_bytes, manifest_bytes >>

\* a faulty variant: the recognized tag argon2id is let through to the PBKDF2 path
ValidateKdf_Argon2idAccepted ==
  /\ spc = "kdf"
  /\ IF bundle.kdf_algorithm \notin { SealedText.pbkdf2, SealedText.argon2id }
     THEN SealedFail("kdf", VerifyError("DecryptionFailed"))
     ELSE SealedPass("kdf", "salt")
  /\ UNCHANGED << sealedLocalVars, audio_bytes, manifest_bytes >>

\* decrypt: if self.kdf_algorithm != "pbkdf2"
ValidateKdf ==
  /\ spc = "kdf"
  /\ IF bundle.kdf_algorithm # SealedText.pbkdf2
     THEN SealedFail("kdf", VerifyError("DecryptionFailed"))
     ELSE SealedPass("kdf", "salt")
  /\ UNCHANGED << sealedLocalVars, audio_bytes, manifest_bytes >>

\* decrypt: let salt = decode_base64(&self.salt)?;
DecodeSalt ==
  /\ spc = "salt"
  /\ LET r == decode_base64(bundle.salt)
     IN IF r.ok
        THEN salt' = r.v /\ SealedPass("salt", "derive")
        ELSE SealedFail("salt", r.err) /\ UNCHANGED salt
  /\ UNCHANGED << bundle, key, encrypted, decrypted, payload, audio_bytes, manifest_bytes >>

\* decrypt: let key = derive_key_pbkdf2(password, &salt, self.kdf_parameters.iterations);
DeriveKey ==
  /\ spc = "derive"
  /\ key' = derive_key_pbkdf2(password, salt, bundle.kdf_parameters.iterations)
  /\ SealedPass("derive", "payload")
  /\ UNCHANGED << bundle, salt, encrypted, decrypted, payload, audio_bytes, manifest_bytes >>

\* decrypt: let encrypted = decode_base64(&self.encrypted_payload)?;
DecodePayload ==
  /\ spc = "payload"
  /\ LET r == decode_base64(bundle.encrypted_payload)
     IN IF r.ok
        THEN encrypted' = r.v /\ SealedPass("payload", "decrypt")
        ELSE SealedFail("payload", r.err) /\ UNCHANGED encrypted
  /\ UNCHANGED << bundle, salt, key, decrypted, payload, audio_bytes, manifest_bytes >>

\* a faulty variant: the nonce member of the container must be the nonce in front
\* of the ciphertext
DecryptPayload_ContainerNonce ==
  /\ spc = "decrypt"
  /\ LET r == decrypt_aes_gcm(key, encrypted)
         n == decode_base64(bundle.nonce)
     IN IF r.ok /\ n.ok /\ n.v = SubSeq(encrypted, 1, 12)
        THEN decrypted' = r.v /\ SealedPass("decrypt", "parse")
        ELSE SealedFail("decrypt", IF r.ok THEN VerifyError("DecryptionFailed") ELSE r.err)
             /\ UNCHANGED decrypted
  /\ UNCHANGED << bundle, salt, key, encrypted, payload, audio_bytes, manifest_bytes >>

\* decrypt: let decrypted = decrypt_aes_gcm(&key, &encrypted)?;
DecryptPayload ==
  /\ spc = "decrypt"
  /\ LET r == decrypt_aes_gcm(key, encrypted)
     IN IF r.ok
        THEN decrypted' = r.v /\ SealedPass("decrypt", "parse")
        ELSE SealedFail("decrypt", r.err) /\ UNCHANGED decrypted
  /\ UNCHANGED << bundle, salt, key, encrypted, payload, audio_bytes, manifest_bytes >>

\* decrypt: let payload: DecryptedPayload = serde_json::from_slice(&decrypted)...?;
ParsePayload ==
  /\ spc = "parse"
  /\ LET r == payload_from_json(decrypted)
     IN IF r.ok
        THEN payload' = r.v /\ SealedPass("parse", "unpack")
        ELSE SealedFail("parse", r.err) /\ UNCHANGED payload
  /\ UNCHANGED << bundle, salt, key, encrypted, decrypted, audio_bytes, manifest_bytes >>

\* let audio_bytes = payload.audio_bytes()?; let manifest_bytes = payload.manifest_bytes()?;
\* and verify_audio_and_manifest is called with them
UnpackPayload ==
  /\ spc = "unpack"
  /\ LET audio == decode_base64(payload.audio_data)
         file == decode_base64(payload.manifest_data)
     IN IF ~audio.ok
        THEN SealedFail("unpack", audio.err)
        ELSE IF ~file.ok
        THEN SealedFail("unpack", file.err)
        ELSE /\ audio_bytes' = audio.v
             /\ manifest_bytes' = Tokens(file.v)
             /\ spc' = "verify"
             /\ sran' = Append(sran, "unpack")
             /\ UNCHANGED << issued, verifyVars, sealedInputVars, sealed_result, pureVars >>
  /\ UNCHANGED sealedLocalVars

\* a faulty variant: a failed verification is reported as a corrupted bundle
ReturnSealed_ErrorReplaced ==
  /\ spc = "verify" /\ pc = "done"
  /\ sealed_result' =
       IF result.ok
       THEN Ok([ manifest |-> result.v.manifest,
                 trust_level |-> result.v.trust_level,
                 audio_data |-> audio_bytes,
                 audio_filename |-> payload.audio_filename ])
       ELSE Err(VerifyError("BundleCorrupted"))
  /\ spc' = "done"
  /\ sran' = Append(sran, "verify")
  /\ UNCHANGED << inputVars, verifyVars, sealedInputVars, sealedLocalVars, pureVars >>

\* let verification = verify_audio_and_manifest(..)?; Ok(SealedVerificationResult {..})
ReturnSealed ==
  /\ spc = "verify" /\ pc = "done"
  /\ sealed_result' =
       IF result.ok
       THEN Ok([ manifest |-> result.v.manifest,
                 trust_level |-> result.v.trust_level,
                 audio_data |-> audio_bytes,
                 audio_filename |-> payload.audio_filename ])
       ELSE result
  /\ spc' = "done"
  /\ sran' = Append(sran, "verify")
  /\ UNCHANGED << inputVars, verifyVars, sealedInputVars, sealedLocalVars, pureVars >>

\* verify_sealed_bundle (verify.rs:62-68): the outcome of
\* verify_and_extract_sealed_bundle without the extracted audio
verify_sealed_bundle(extracted) ==
  IF extracted.ok
  THEN Ok([ manifest |-> extracted.v.manifest, trust_level |-> extracted.v.trust_level ])
  ELSE extracted

VerifySealed ==
  \/ ParseBundle \/ ValidateVersion \/ ValidateKdf \/ DecodeSalt \/ DeriveKey
  \/ DecodePayload \/ DecryptPayload \/ ParsePayload \/ UnpackPayload \/ ReturnSealed

NextSealed == VerifySealed \/ Verify

SpecSealed == InitSealed /\ [][NextSealed]_vars

(***************************************************************************)
(* The members of the container that decrypt does not read: nonce,         *)
(* createdAt, kdfParameters.memoryCostKB and kdfParameters.parallelism     *)
(* (sealed.rs:14-33, 61-88).  The same call is made twice, the second time *)
(* on the bundle with one of these members changed.                        *)
(***************************************************************************)
\* the device signed the manifest of a recording with the trust vectors tv and
\* sealed the payload with SealingPassword; the bundle file that arrives has any of
\* the member values and the byte ws between its tokens, the password tried is any
SealedArrives(tv, ws) ==
  /\ issued =
       { [ pk |-> DeviceKey,
           msg |-> sha256_bytes(canonicalize_json(JObj(
                     UnsignedManifest(<< 82 >>, CURRENT_SCHEMA_VERSION, tv, DeviceKey)))),
           sig |-> SignatureOf(DeviceKey) ] }
  /\ encryptions =
       { [ key |-> derive_key_pbkdf2(SealingPassword, SaltBytes, 600000),
           combined |-> Combined(<< 1, 2, 3, 4 >>),
           plaintext |-> PayloadFile(tv) ],
         [ key |-> derive_key_pbkdf2(SealingPassword, SaltBytes, 600000),
           combined |-> Combined(<< 5, 6, 7, 8 >>),
           plaintext |-> [ ws |-> 32, root |-> JNull ] ],
         [ key |-> derive_key_pbkdf2(SealingPassword, SaltBytes, 600000),
           combined |-> Combined(<< 9, 10, 11, 12 >>),
           plaintext |-> PayloadFileWith(<< 82, 73 >>, tv) ] }
  /\ \E version \in BundleVersions, kdf \in KdfAlgorithms, salt_text \in Salts,
        payload_text \in EncryptedPayloads :
       bundle_bytes = BundleFile(version, kdf, salt_text, payload_text, ws)
  /\ password \in Passwords
  /\ audio_bytes = Unset /\ manifest_bytes = Unset
  /\ spc = "bundle"
  /\ bundle = Unset /\ salt = Unset /\ key = Unset /\ encrypted = Unset
  /\ decrypted = Unset /\ payload = Unset
  /\ sealed_result = NoResult
  /\ sran = <<>>

InitInformational ==
  /\ SealedArrives(AllVectors, 32)
  /\ NotCalled
  /\ NotPure

\* other values of the four members, each of the member's type: another nonce, a
\* nonce that is not base64, an empty nonce, other timestamps, other costs
Informational ==
  << << << BundleKey.nonce >>, JStr(Base64Encode(Repeat(8, 12))) >>,
     << << BundleKey.nonce >>, JStr(Text.junk) >>,
     << << BundleKey.nonce >>, JStr(<<>>) >>,
     << << BundleKey.createdAt >>, JStr(Text.t1) >>,
     << << BundleKey.createdAt >>, JStr(Text.junk) >>,
     << << BundleKey.kdfParameters, BundleKey.memoryCostKB >>, JInt(65536) >>,
     << << BundleKey.kdfParameters, BundleKey.parallelism >>, JInt(4) >> >>

\* the call returned; it is made again, with the same password, on the bundle with
\* one informational member changed
AlterInformational ==
  /\ spc = "done"
  /\ previous_sealed = Unset
  /\ previous_sealed' = [ bundle_bytes |-> bundle_bytes, sealed_result |-> sealed_result,
                          sran |-> sran, decrypted |-> decrypted ]
  /\ \E i \in 1..Len(Informational) :
       LET path == Informational[i][1]
           node == Informational[i][2]
           members == bundle_bytes.root.v
       IN bundle_bytes' =
            [ bundle_bytes EXCEPT !.root.v =
                IF Len(path) = 1 THEN SetMember(members, path[1], node)
                ELSE SetMember(members, path[1],
                               JObj(SetMember(Get(members, path[1]).v, path[2], node))) ]
  /\ spc' = "bundle"
  /\ bundle' = Unset /\ salt' = Unset /\ key' = Unset /\ encrypted' = Unset
  /\ decrypted' = Unset /\ payload' = Unset
  /\ sealed_result' = NoResult
  /\ sran' = <<>>
  /\ audio_bytes' = Unset /\ manifest_bytes' = Unset
  /\ pc' = "idle"
  /\ manifest' = Unset /\ computed_hash' = Unset /\ public_key' = Unset
  /\ manifest_hash' = Unset /\ signature' = Unset
  /\ result' = NoResult
  /\ ran' = <<>>
  /\ UNCHANGED << issued, password, encryptions, historyVars, canonVars, exitVars,
                  defect, extract_pc, disk >>

NextInformational == VerifySealed \/ Verify \/ AlterInformational

SpecInformational == InitInformational /\ [][NextInformational]_vars

(***************************************************************************)
(* Bundles and payloads that are not of their shape: one member missing,   *)
(* null, of another type or repeated, or text that is not JSON.            *)
(***************************************************************************)
\* the paths of the members of DecryptedPayload
PayloadPaths ==
  { << Fields("DecryptedPayload")[i][1] >> : i \in 1..Len(Fields("DecryptedPayload")) }

\* the defects of a bundle file and of the payload sealed in it
BundleDefects ==
  { NoDefect, [ what |-> "unknown", path |-> <<>> ],
    [ what |-> "fraction", path |-> << BundleKey.version >> ] }
  \cup [ what : { "missing", "null", "mistyped", "repeated" },
         path : { << Fields("SealedProofBundle")[i][1] >> :
                    i \in 1..Len(Fields("SealedProofBundle")) }
                \cup { << BundleKey.kdfParameters, k >> :
                         k \in { BundleKey.iterations, BundleKey.memoryCostKB,
                                 BundleKey.parallelism } }
                \cup PayloadPaths ]

\* the device signed and sealed a recording; the bundle file that arrives, or the
\* payload that was sealed in it, has one defect, or a byte between its tokens
\* that is not JSON; the password tried is the sealing password or another
InitBroken ==
  /\ \E d \in BundleDefects, ws \in { 32, 0 }, payload_ws \in { 32, 0 } :
       LET file == BundleFile(CURRENT_BUNDLE_VERSION, SealedText.pbkdf2,
                              Base64Encode(SaltBytes),
                              Base64Encode(Combined(<< 1, 2, 3, 4 >>)), ws)
           sealed == PayloadFile(AllVectors)
       IN /\ defect = d
          /\ bundle_bytes =
               IF d.path \in PayloadPaths THEN file
               ELSE [ file EXCEPT !.root = Damage(@, d.path, d.what) ]
          /\ encryptions =
               { [ key |-> derive_key_pbkdf2(SealingPassword, SaltBytes, 600000),
                   combined |-> Combined(<< 1, 2, 3, 4 >>),
                   plaintext |->
                     [ ws |-> payload_ws,
                       root |-> IF d.path \in PayloadPaths
                                THEN Damage(sealed.root, d.path, d.what)
                                ELSE sealed.root ] ] }
  /\ issued =
       { [ pk |-> DeviceKey,
           msg |-> sha256_bytes(canonicalize_json(JObj(
                     UnsignedManifest(<< 82 >>, CURRENT_SCHEMA_VERSION, AllVectors,
                                      DeviceKey)))),
           sig |-> SignatureOf(DeviceKey) ] }
  /\ password \in { SealingPassword, << 112, 120 >> }
  /\ audio_bytes = Unset /\ manifest_bytes = Unset
  /\ spc = "bundle"
  /\ bundle = Unset /\ salt = Unset /\ key = Unset /\ encrypted = Unset
  /\ decrypted = Unset /\ payload = Unset
  /\ sealed_result = NoResult
  /\ sran = <<>>
  /\ NotCalled
  /\ document = Unset /\ cpc = "none" /\ json_value = Unset
  /\ canonical_text = Unset /\ canonical_hash = NoResult /\ previous = Unset
  /\ run_result = NoResult /\ exit_status = -1 /\ previous_exit = Unset
  /\ NotExtracting

SpecBroken == InitBroken /\ [][NextSealed]_vars

(***************************************************************************)
(* run on a .proofcapture path with --extract (main.rs:87-101): the call   *)
(* of verify_and_extract_sealed_bundle, then the directory, then the file. *)
(***************************************************************************)
InitExtract ==
  /\ SealedArrives(AllVectors, 32)
  /\ NotCalled
  /\ document = Unset /\ cpc = "none" /\ json_value = Unset
  /\ canonical_text = Unset /\ canonical_hash = NoResult /\ previous = Unset
  /\ run_result = NoResult /\ exit_status = -1 /\ previous_exit = Unset
  /\ defect = NoDefect
  /\ previous_sealed = Unset
  /\ extract_pc = "call"
  /\ disk = NoDisk

\* what an extract step leaves alone
ExtractStep ==
  UNCHANGED << inputVars, verifyVars, sealedVars, canonVars, exit_status, previous_exit,
               defect, previous_sealed >>

\* let result = verify_and_extract_sealed_bundle(path, &password)?;  with an error
ReturnError ==
  /\ extract_pc = "call" /\ spc = "done"
  /\ ~sealed_result.ok
  /\ run_result' = sealed_result
  /\ extract_pc' = "done"
  /\ UNCHANGED disk
  /\ ExtractStep

\* a faulty variant: the directory is created whatever the call returned
CreateDir_WhateverReturned ==
  /\ extract_pc = "call" /\ spc = "done"
  /\ disk' = [ disk EXCEPT !.dir = TRUE ]
  /\ extract_pc' = "write"
  /\ UNCHANGED run_result
  /\ ExtractStep

\* fs::create_dir_all(extract_dir)
CreateDir ==
  /\ extract_pc = "call" /\ spc = "done"
  /\ sealed_result.ok
  /\ disk' = [ disk EXCEPT !.dir = TRUE ]
  /\ extract_pc' = "write"
  /\ UNCHANGED run_result
  /\ ExtractStep

\* fs::create_dir_all(extract_dir).map_err(|e| VerifyError::Io(e))?;  failing
CreateDirFails ==
  /\ extract_pc = "call" /\ spc = "done"
  /\ sealed_result.ok
  /\ run_result' = Err(VerifyError("Io"))
  /\ extract_pc' = "done"
  /\ UNCHANGED disk
  /\ ExtractStep

\* fs::write(&audio_path, &result.audio_data) and Ok(VerificationResult { .. })
WriteAudio ==
  /\ extract_pc = "write"
  /\ disk' = [ disk EXCEPT !.files = { [ name |-> sealed_result.v.audio_filename,
                                         data |-> sealed_result.v.audio_data ] } ]
  /\ run_result' = Ok([ manifest |-> sealed_result.v.manifest,
                        trust_level |-> sealed_result.v.trust_level ])
  /\ extract_pc' = "done"
  /\ ExtractStep

\* fs::write(..).map_err(|e| VerifyError::Io(e))?;  failing: no file, or a file with
\* the bytes written before the failure
WriteAudioFails ==
  /\ extract_pc = "write"
  /\ \/ UNCHANGED disk
     \/ \E n \in 0..(Len(sealed_result.v.audio_data) - 1) :
          disk' = [ disk EXCEPT !.files =
                      { [ name |-> sealed_result.v.audio_filename,
                          data |-> SubSeq(sealed_result.v.audio_data, 1, n) ] } ]
  /\ run_result' = Err(VerifyError("Io"))
  /\ extract_pc' = "done"
  /\ ExtractStep

NextExtract ==
  \/ VerifySealed \/ Verify
  \/ ReturnError \/ CreateDir \/ CreateDirFails \/ WriteAudio \/ WriteAudioFails

SpecExtract == InitExtract /\ [][NextExtract]_vars

(***************************************************************************)
(* The canonical encoder on its own: compute_canonical_hash_from_bytes     *)
(* (manifest.rs:141-155) called on the bytes of JSON texts, one action per *)
(* statement, and called a second time on another text or on the canonical *)
(* text the first call produced.                                           *)
(***************************************************************************)
\* the value trees of the texts: scalars, strings with every class of character
\* escape_json_string tells apart, objects and arrays that differ in member and
\* element order at both depths, "signature" members at the root and below it,
\* keys with characters that need escaping, and a repeated key
DocTrees ==
  LET a == << 97 >>
      b == << 98 >>
      z == << 122 >>
      s1 == JStr(<< 115, 49 >>)
      s2 == JStr(<< 115, 50 >>)
      test == JStr(<< 116, 101, 115, 116 >>)
      Signature == << 83, 105, 103, 110, 97, 116, 117, 114, 101 >>
      ab == JObj(<< << a, JInt(1) >>, << b, JInt(2) >> >>)
      ba == JObj(<< << b, JInt(2) >>, << a, JInt(1) >> >>)
  IN << JNull, JBool(TRUE), JBool(FALSE), JInt(0), JInt(-7), JFloat(1),
       JStr(<<>>), JStr(<< 97, 47, 98 >>), JStr(<< 34, 92, 47, 10, 13, 9, 1, 31, 127, 97 >>),
       JStr(<< 8, 12, 133, 160 >>),
       ab, ba,
       JObj(<< << z, ba >>, << a, test >> >>),
       JObj(<< << z, ab >>, << a, test >> >>),
       JObj(<< << a, test >>, << z, ba >> >>),
       JObj(<< << << 97, 97 >>, JInt(1) >>, << a, JInt(2) >>, << << 66 >>, JInt(3) >> >>),
       JObj(<< << << 66 >>, JInt(3) >>, << << 97, 97 >>, JInt(1) >>, << a, JInt(2) >> >>),
       JArr(<< ba, JInt(3) >>), JArr(<< ab, JInt(3) >>), JArr(<< JInt(3), ab >>),
       JArr(<< JStr(<< 47, 9, 27 >>) >>), JObj(<< << a, JStr(<< 34, 47, 0 >>) >> >>),
       JObj(<< << a, JInt(1) >>, << Key.signature, s1 >> >>),
       JObj(<< << Key.signature, s2 >>, << a, JInt(1) >> >>),
       JObj(<< << a, JInt(1) >> >>),
       JObj(<< << a, JObj(<< << Key.signature, s1 >> >>) >> >>),
       JObj(<< << a, JObj(<< << Key.signature, s2 >> >>) >> >>),
       JObj(<< << a, JInt(1) >>, << Signature, s1 >> >>),
       JObj(<< << a, JInt(1) >>, << Signature, s2 >> >>),
       JArr(<< JObj(<< << Key.signature, s1 >> >>) >>),
       JArr(<< JObj(<< << Key.signature, s2 >> >>) >>),
       JObj(<< << << 97, 34, 98 >>, JInt(1) >> >>),
       JObj(<< << << 97, 92, 98 >>, JInt(1) >> >>),
       JObj(<< << << 97, 47, 98 >>, JInt(1) >> >>),
       JObj(<< << << 97, 10, 98 >>, JInt(1) >> >>),
       JObj(<< << << 97, 34, 58, 49, 44, 34, 98 >>, JInt(2) >> >>),
       JObj(<< << a, JInt(3) >>, << b, JInt(2) >>, << a, JInt(1) >> >>) >>

\* the texts: each tree written out with a blank after ':' and ',', and a text that
\* is not JSON
Docs == { Serialize(DocTrees[i], 32) : i \in 1..Len(DocTrees) } \cup { << 123, 97, 125 >> }

RECURSIVE SameValue(_, _)
\* Value == Value: objects are maps, equal when they hold the same keys with equal
\* values, in whatever order the members were written
SameValue(x, y) ==
  IF x.t # y.t THEN FALSE
  ELSE IF x.t = "obj" THEN
    /\ Len(x.v) = Len(y.v)
    /\ \A i \in 1..Len(x.v) :
         /\ HasKey(y.v, x.v[i][1])
         /\ SameValue(x.v[i][2], Get(y.v, x.v[i][1]))
  ELSE IF x.t = "arr" THEN
    /\ Len(x.v) = Len(y.v)
    /\ \A i \in 1..Len(x.v) : SameValue(x.v[i], y.v[i])
  ELSE x = y

InitCanon ==
  /\ document \in Docs
  /\ cpc = "parse"
  /\ json_value = Unset /\ canonical_text = Unset /\ canonical_hash = NoResult
  /\ previous = Unset
  /\ run_result = NoResult /\ exit_status = -1 /\ previous_exit = Unset
  /\ defect = NoDefect
  /\ NotExtracting
  /\ audio_bytes = Unset /\ manifest_bytes = Unset /\ issued = {}
  /\ NotCalled
  /\ NotSealed

\* let mut value: Value = serde_json::from_slice(json_bytes).map_err(..)?;
ParseBytes ==
  /\ cpc = "parse"
  /\ LET r == ParseJson(document)
     IN IF r.ok
        THEN json_value' = r.v /\ cpc' = "remove" /\ UNCHANGED canonical_hash
        ELSE canonical_hash' = r /\ cpc' = "done" /\ UNCHANGED json_value
  /\ UNCHANGED << document, canonical_text, previous >>
  /\ UNCHANGED << inputVars, verifyVars, sealedVars, exitVars, defect, extractVars >>

\* a faulty variant: the key is removed from every object of the tree
RemoveSignature_AtEveryDepth ==
  /\ cpc = "remove"
  /\ LET RECURSIVE Strip(_)
         Strip(node) ==
           IF node.t = "obj" THEN
             LET kept == Remove(node.v, Key.signature)
             IN JObj([i \in 1..Len(kept) |-> << kept[i][1], Strip(kept[i][2]) >>])
           ELSE IF node.t = "arr" THEN JArr([i \in 1..Len(node.v) |-> Strip(node.v[i])])
           ELSE node
     IN json_value' = Strip(json_value)
  /\ cpc' = "canon"
  /\ UNCHANGED << document, canonical_text, canonical_hash, previous >>
  /\ UNCHANGED << inputVars, verifyVars, sealedVars, exitVars, defect, extractVars >>

\* if let Value::Object(ref mut map) = value { map.remove("signature"); }
RemoveSignature ==
  /\ cpc = "remove"
  /\ json_value' = IF json_value.t = "obj"
                   THEN JObj(Remove(json_value.v, Key.signature))
                   ELSE json_value
  /\ cpc' = "canon"
  /\ UNCHANGED << document, canonical_text, canonical_hash, previous >>
  /\ UNCHANGED << inputVars, verifyVars, sealedVars, exitVars, defect, extractVars >>

\* let canonical = canonicalize_json(&value)?;
Canonicalize ==
  /\ cpc = "canon"
  /\ canonical_text' = canonicalize_json(json_value)
  /\ cpc' = "hash"
  /\ UNCHANGED << document, json_value, canonical_hash, previous >>
  /\ UNCHANGED << inputVars, verifyVars, sealedVars, exitVars, defect, extractVars >>

\* Ok(sha256_bytes(canonical.as_bytes()))
HashCanonical ==
  /\ cpc = "hash"
  /\ canonical_hash' = Ok(sha256_bytes(canonical_text))
  /\ cpc' = "done"
  /\ UNCHANGED << document, json_value, canonical_text, previous >>
  /\ UNCHANGED << inputVars, verifyVars, sealedVars, exitVars, defect, extractVars >>

\* the second call: on another text, or on the canonical text of the first call
NextDocument ==
  /\ cpc = "done"
  /\ previous = Unset
  /\ previous' = [ document |-> document, json_value |-> json_value,
                   canonical_text |-> canonical_text, canonical_hash |-> canonical_hash ]
  /\ document' \in Docs \cup (IF canonical_hash.ok THEN { canonical_text } ELSE {})
  /\ cpc' = "parse"
  /\ json_value' = Unset /\ canonical_text' = Unset /\ canonical_hash' = NoResult
  /\ UNCHANGED << inputVars, verifyVars, sealedVars, exitVars, defect, extractVars >>

NextCanon ==
  \/ ParseBytes \/ RemoveSignature \/ Canonicalize \/ HashCanonical \/ NextDocument

SpecCanon == InitCanon /\ [][NextCanon]_vars

(***************************************************************************)
(* The exit code of the process (error.rs:45-63, main.rs:61-74).           *)
(***************************************************************************)
\* a faulty variant: an I/O error exits like a missing audio file
exit_code_io_as_missing(e) ==
  CASE e.kind = "HashMismatch" -> 1
    [] e.kind = "SignatureInvalid" -> 2
    [] e.kind = "ManifestMalformed" -> 3
    [] e.kind = "SchemaUnsupported" -> 4
    [] e.kind = "AudioFileMissing" -> 5
    [] e.kind = "AudioFileCorrupt" -> 6
    [] e.kind = "DecryptionFailed" -> 7
    [] e.kind = "BundleCorrupted" -> 8
    [] e.kind = "UnsupportedBundleVersion" -> 9
    [] e.kind = "Io" -> 5
    [] e.kind = "Json" -> 3
    [] e.kind = "Base64" -> 3

\* VerifyError::exit_code
exit_code(e) ==
  CASE e.kind = "HashMismatch" -> 1
    [] e.kind = "SignatureInvalid" -> 2
    [] e.kind = "ManifestMalformed" -> 3
    [] e.kind = "SchemaUnsupported" -> 4
    [] e.kind = "AudioFileMissing" -> 5
    [] e.kind = "AudioFileCorrupt" -> 6
    [] e.kind = "DecryptionFailed" -> 7
    [] e.kind = "BundleCorrupted" -> 8
    [] e.kind = "UnsupportedBundleVersion" -> 9
    [] e.kind = "Io" -> 10
    [] e.kind = "Json" -> 3
    [] e.kind = "Base64" -> 3

\* the values of VerifyError: every kind, the two versioned kinds with the versions
\* their checks reject
Errors ==
  { VerifyError(k) : k \in ErrorKinds \ { "SchemaUnsupported", "UnsupportedBundleVersion" } }
  \cup { VersionError("SchemaUnsupported", v) :
           v \in (CURRENT_SCHEMA_VERSION + 1)..MaxVersion }
  \cup { VersionError("UnsupportedBundleVersion", v) :
           v \in (CURRENT_BUNDLE_VERSION + 1)..MaxBundleVersion }

\* run returned: a verification result or any error
Ran ==
  \/ \E level \in { "A", "B", "C" } : run_result' = Ok([ trust_level |-> level ])
  \/ \E e \in Errors : run_result' = Err(e)

InitExit ==
  /\ \/ \E level \in { "A", "B", "C" } : run_result = Ok([ trust_level |-> level ])
     \/ \E e \in Errors : run_result = Err(e)
  /\ exit_status = -1
  /\ previous_exit = Unset
  /\ document = Unset /\ cpc = "none" /\ json_value = Unset
  /\ canonical_text = Unset /\ canonical_hash = NoResult /\ previous = Unset
  /\ defect = NoDefect
  /\ NotExtracting
  /\ audio_bytes = Unset /\ manifest_bytes = Unset /\ issued = {}
  /\ NotCalled
  /\ NotSealed

\* main: Ok(result) => ExitCode::SUCCESS, Err(e) => ExitCode::from(e.exit_code() as u8)
Exit ==
  /\ exit_status = -1
  /\ exit_status' = IF run_result.ok THEN 0 ELSE exit_code(run_result.err) % 256
  /\ UNCHANGED << run_result, previous_exit >>
  /\ UNCHANGED << inputVars, verifyVars, sealedVars, canonVars, defect, extractVars >>

\* the program is run a second time
RunAgain ==
  /\ exit_status # -1
  /\ previous_exit = Unset
  /\ previous_exit' = [ run_result |-> run_result, exit_status |-> exit_status ]
  /\ Ran
  /\ exit_status' = -1
  /\ UNCHANGED << inputVars, verifyVars, sealedVars, canonVars, defect, extractVars >>

NextExit == Exit \/ RunAgain

SpecExit == InitExit /\ [][NextExit]_vars

(***************************************************************************)
(* The checks of verify_audio_and_manifest as functions of its arguments,  *)
(* each read on its own: what the check decides when the earlier ones let  *)
(* it run.                                                                 *)
(***************************************************************************)
CheckOrder == << "parse", "schema", "hash", "pubkey", "canon", "sig", "verify", "trust" >>

Passed == Ok(<<>>)

\* the verdict of each check of CheckOrder on the arguments: Ok, or the error the
\* check reports.  Only the first verdict exists for a manifest that does not parse,
\* and the signature is verified only under a key and a signature that parsed.
Verdicts ==
  LET parsed == from_json(manifest_bytes)
  IN IF ~parsed.ok THEN << parsed >>
     ELSE
       LET m == parsed.v
           key_bytes == decode_base64(m.public_key)
           pub == IF key_bytes.ok THEN parse_public_key(key_bytes.v) ELSE key_bytes
           digest == compute_canonical_hash_from_bytes(manifest_bytes)
           sig_bytes == decode_base64(m.signature)
           sig == IF sig_bytes.ok THEN parse_signature(sig_bytes.v) ELSE sig_bytes
       IN << parsed,
             validate_schema(m),
             IF sha256_base64(audio_bytes) = m.audio_hash THEN Passed
             ELSE Err(VerifyError("HashMismatch")),
             pub,
             digest,
             sig,
             IF pub.ok /\ digest.ok /\ sig.ok /\ ~verify_signature(pub.v, digest.v, sig.v)
             THEN Err(VerifyError("SignatureInvalid")) ELSE Passed,
             Passed >>

\* the index of the first check that fails, 0 when none does
FirstFailing(verdicts) ==
  IF \A i \in 1..Len(verdicts) : verdicts[i].ok THEN 0
  ELSE CHOOSE i \in 1..Len(verdicts) :
         ~verdicts[i].ok /\ \A j \in 1..(i - 1) : verdicts[j].ok

IsPrefix(s, t) == Len(s) <= Len(t) /\ s = SubSeq(t, 1, Len(s))

Returned == pc = "done"

\* C1: the checks run in one fixed order; the error returned is the error of the
\* first check in that order that fails, and no check runs after a failing one.
C1_FirstFailingCheckDecides ==
  /\ IsPrefix(ran, CheckOrder)
  /\ Returned =>
       LET verdicts == Verdicts
           first == FirstFailing(verdicts)
       IN IF first = 0
          THEN result.ok /\ ran = CheckOrder
          ELSE /\ result = Err(verdicts[first].err)
               /\ ran = SubSeq(CheckOrder, 1, first)

\* a manifest with both a wrong audio hash and a bad signature yields HashMismatch
C1_Witness ==
  /\ Returned
  /\ LET verdicts == Verdicts
     IN /\ Len(verdicts) = Len(CheckOrder)
        /\ ~verdicts[3].ok /\ verdicts[4].ok /\ ~verdicts[6].ok
  /\ result = Err(VerifyError("HashMismatch"))
  /\ ran = << "parse", "schema", "hash" >>

\* every check passes: the manifest parses, schemaVersion <= 1, the audio hash
\* matches, the key and the signature parse, the signature verifies over the digest
AllChecksPass ==
  LET parsed == from_json(manifest_bytes)
      key_bytes == decode_base64(parsed.v.public_key)
      sig_bytes == decode_base64(parsed.v.signature)
  IN /\ parsed.ok
     /\ parsed.v.schema_version <= 1
     /\ Base64Encode(Sha256Digest(audio_bytes)) = parsed.v.audio_hash
     /\ key_bytes.ok /\ parse_public_key(key_bytes.v).ok
     /\ sig_bytes.ok /\ parse_signature(sig_bytes.v).ok
     /\ verify_signature(key_bytes.v,
                         compute_canonical_hash_from_bytes(manifest_bytes).v,
                         sig_bytes.v)

NoVectors(tv) ==
  ~tv.location.some /\ ~tv.motion.some /\ ~tv.continuity.some /\ ~tv.clock.some

\* C2: a VerificationResult is returned only when every check passed, and then it
\* carries the parsed manifest and the trust level of its trust vectors (Level C
\* when it has none); a failing call returns an error and no result.
C2_AllOrNothing ==
  /\ result # NoResult => Returned
  /\ Returned =>
       LET pass == AllChecksPass
       IN /\ result.ok <=> pass
          /\ result.ok =>
               /\ result.v.manifest = from_json(manifest_bytes).v
               /\ result.v.trust_level =
                    compute_trust_level(result.v.manifest.trust_vectors)
               /\ NoVectors(result.v.manifest.trust_vectors)
                    => result.v.trust_level = "C"
          /\ ~result.ok => result.v = <<>>

\* a bundle with no trust vectors verifies at Level C
C2_Witness ==
  /\ Returned /\ result.ok
  /\ NoVectors(result.v.manifest.trust_vectors)
  /\ result.v.trust_level = "C"

\* C3: a manifest that parses, with schemaVersion <= 1, whose audioHash is not the
\* base64 SHA-256 of the audio, yields HashMismatch whatever its key and signature.
C3_WrongAudioIsHashMismatch ==
  Returned =>
    LET parsed == from_json(manifest_bytes)
    IN (/\ parsed.ok
        /\ parsed.v.schema_version <= 1
        /\ Base64Encode(Sha256Digest(audio_bytes)) # parsed.v.audio_hash)
       => result = Err(VerifyError("HashMismatch"))

\* the audio of a verified bundle was replaced, the manifest is the same
C3_Witness ==
  /\ Returned /\ baseOk /\ changed = {"audio"}
  /\ Len(audio_bytes) = 2
  /\ result = Err(VerifyError("HashMismatch"))

\* C4: after a successful verification, changing only the value of appVersion makes
\* verification fail with SignatureInvalid.
C4_AppVersionTamperIsSignatureInvalid ==
  (Returned /\ baseOk /\ changed = {"appVersion"})
  => result = Err(VerifyError("SignatureInvalid"))

C4_Witness ==
  /\ Returned /\ baseOk /\ changed = {"appVersion"}
  /\ Get(manifest_bytes.root.v, Key.appVersion) = JStr(Text.v2)
  /\ result = Err(VerifyError("SignatureInvalid"))

\* a verified bundle with exactly this one thing changed was verified again
OnlyChange(what) == Returned /\ baseOk /\ changed = {what}

\* the values of these top-level members are strings and numbers
ScalarMembers == { "schemaVersion", "audioHash", "appVersion", "publicKey" }

C6_SchemaUnsupportedBeforeCrypto ==
  /\ pc \in { "hash", "pubkey", "canon", "sig", "verify", "trust" }
       => manifest.schema_version <= 1
  /\ Returned =>
       LET parsed == from_json(manifest_bytes)
       IN (parsed.ok /\ parsed.v.schema_version > 1) =>
            /\ result = Err(VersionError("SchemaUnsupported", parsed.v.schema_version))
            /\ ran = << "parse", "schema" >>
            /\ computed_hash = Unset /\ public_key = Unset
            /\ manifest_hash = Unset /\ signature = Unset

\* schemaVersion 2 with the audio replaced and the key made undecodable
C6_Witness ==
  /\ Returned
  /\ Get(manifest_bytes.root.v, Key.schemaVersion) = JInt(2)
  /\ { "audio", "publicKey" } \subseteq changed
  /\ Get(manifest_bytes.root.v, Key.publicKey) = JStr(Text.junk)
  /\ result = Err(VersionError("SchemaUnsupported", 2))
  /\ ran = << "parse", "schema" >>

\* the trustVectors member of the manifest file
VectorsMember == Get(manifest_bytes.root.v, Key.trustVectors).v

\* C7: the level is A iff location and motion are present and continuity is present
\* with uninterrupted == true; otherwise B iff location and motion are present;
\* otherwise C; and the clock vector, present or absent, never changes it.
C7_TrustLevelTruthTable ==
  Returned =>
    /\ result.ok
    /\ LET level == result.v.trust_level
           vectors == result.v.manifest.trust_vectors
           both == HasKey(VectorsMember, Key.location) /\ HasKey(VectorsMember, Key.motion)
           uninterrupted ==
             /\ HasKey(VectorsMember, Key.continuity)
             /\ Get(Get(VectorsMember, Key.continuity).v, Key.uninterrupted) = JBool(TRUE)
       IN /\ level = "A" <=> (both /\ uninterrupted)
          /\ level = "B" <=> (both /\ ~uninterrupted)
          /\ level = "C" <=> ~both
          /\ compute_trust_level(
               [vectors EXCEPT !.clock = [some |-> FALSE, v |-> JNull]]) = level
          /\ compute_trust_level(
               [vectors EXCEPT !.clock = [some |-> TRUE, v |-> ClockNode]]) = level

\* location, motion and the clock with an interrupted continuity: Level B
C7_Witness ==
  /\ Returned /\ result.ok
  /\ HasKey(VectorsMember, Key.location) /\ HasKey(VectorsMember, Key.motion)
  /\ HasKey(VectorsMember, Key.clock) /\ HasKey(VectorsMember, Key.continuity)
  /\ Get(Get(VectorsMember, Key.continuity).v, Key.uninterrupted) = JBool(FALSE)
  /\ result.v.trust_level = "B"

\* verify_and_extract_sealed_bundle returned
SealedReturned == spc = "done"

\* a well-formed sealed bundle: a supported version, kdfAlgorithm pbkdf2, a base64
\* salt, and a base64 payload of at least 28 bytes
WellFormedBundle ==
  LET parsed == bundle_from_json(bundle_bytes)
      salt_bytes == decode_base64(parsed.v.salt)
      payload_bytes == decode_base64(parsed.v.encrypted_payload)
  IN /\ parsed.ok
     /\ parsed.v.version <= 1
     /\ parsed.v.kdf_algorithm = SealedText.pbkdf2
     /\ salt_bytes.ok
     /\ payload_bytes.ok /\ Len(payload_bytes.v) >= 28

\* C8 as stated: a well-formed sealed bundle, with any password other than the one
\* it was sealed with, yields DecryptionFailed, never BundleCorrupted or a result.
C8_OtherPasswordIsDecryptionFailed ==
  (SealedReturned /\ WellFormedBundle /\ password # SealingPassword)
  => sealed_result = Err(VerifyError("DecryptionFailed"))

\* C8 as the code has it: the key is derived from the HMAC key of the password, so
\* a password with another HMAC key than the sealing password's (any password that
\* is not the sealing password followed by zero bytes) yields DecryptionFailed,
\* and a password with the same HMAC key opens what the device sealed.
C8_OtherHmacKeyIsDecryptionFailed ==
  (SealedReturned /\ WellFormedBundle) =>
    IF HmacKey(password) # HmacKey(SealingPassword)
    THEN sealed_result = Err(VerifyError("DecryptionFailed"))
    ELSE encrypted = Combined(<< 1, 2, 3, 4 >>) => sealed_result.ok

\* the sealed payload with the empty password
C8_Witness ==
  /\ SealedReturned /\ WellFormedBundle
  /\ password = <<>>
  /\ encrypted = Combined(<< 1, 2, 3, 4 >>)
  /\ sealed_result = Err(VerifyError("DecryptionFailed"))

LastStep == IF sran = <<>> THEN "none" ELSE sran[Len(sran)]

\* C9: decrypt_aes_gcm returns BundleCorrupted exactly when the combined input is
\* shorter than 28 bytes, whatever the key, and DecryptionFailed exactly when it
\* has at least 28 bytes and does not authenticate under the key.
C9_DecryptFailureKinds ==
  LastStep = "decrypt" =>
    LET short == Len(encrypted) < 28
        authentic == \E e \in encryptions : e.key = key /\ e.combined = encrypted
    IN /\ sealed_result = Err(VerifyError("BundleCorrupted")) <=> short
       /\ sealed_result = Err(VerifyError("DecryptionFailed")) <=> (~short /\ ~authentic)
       /\ sealed_result = NoResult <=> (~short /\ authentic)
       /\ SealedReturned <=> sealed_result # NoResult

\* 27 bytes under a key derived from another password: BundleCorrupted
C9_Witness ==
  /\ LastStep = "decrypt"
  /\ Len(encrypted) = 27
  /\ password = << 112, 120 >>
  /\ sealed_result = Err(VerifyError("BundleCorrupted"))

\* C10: a bundle whose version is above 1 yields UnsupportedBundleVersion carrying
\* that version, and nothing after the version check has run: the KDF tag is not
\* examined, no salt is decoded, no key derived, nothing decrypted.
C10_UnsupportedVersionFirst ==
  /\ spc \in { "kdf", "salt", "derive", "payload", "decrypt", "parse", "unpack", "verify" }
       => bundle.version <= 1
  /\ SealedReturned =>
       LET parsed == bundle_from_json(bundle_bytes)
       IN (parsed.ok /\ parsed.v.version > 1) =>
            /\ sealed_result =
                 Err(VersionError("UnsupportedBundleVersion", parsed.v.version))
            /\ sran = << "bundle", "version" >>
            /\ salt = Unset /\ key = Unset /\ encrypted = Unset
            /\ decrypted = Unset /\ payload = Unset

\* version 2 with an unsupported KDF tag, a salt and a payload that are not base64,
\* and another password
C10_Witness ==
  /\ SealedReturned
  /\ bundle_bytes.ws = 32
  /\ Get(bundle_bytes.root.v, BundleKey.version) = JInt(2)
  /\ Get(bundle_bytes.root.v, BundleKey.kdfAlgorithm) = JStr(SealedText.argon2id)
  /\ Get(bundle_bytes.root.v, BundleKey.salt) = JStr(Text.junk)
  /\ Get(bundle_bytes.root.v, BundleKey.encryptedPayload) = JStr(Text.junk)
  /\ password # SealingPassword
  /\ sealed_result = Err(VersionError("UnsupportedBundleVersion", 2))
  /\ sran = << "bundle", "version" >>

\* C11: a bundle with a supported version and a kdfAlgorithm other than "pbkdf2"
\* yields DecryptionFailed at the KDF check: no salt is decoded, no key derived and
\* nothing decrypted, whatever the salt, the payload and the password are.
C11_OtherKdfIsDecryptionFailed ==
  /\ spc \in { "salt", "derive", "payload", "decrypt", "parse", "unpack", "verify" }
       => bundle.kdf_algorithm = SealedText.pbkdf2
  /\ SealedReturned =>
       LET parsed == bundle_from_json(bundle_bytes)
       IN (/\ parsed.ok
           /\ parsed.v.version <= 1
           /\ parsed.v.kdf_algorithm # SealedText.pbkdf2) =>
            /\ sealed_result = Err(VerifyError("DecryptionFailed"))
            /\ sran = << "bundle", "version", "kdf" >>
            /\ salt = Unset /\ key = Unset /\ encrypted = Unset
            /\ decrypted = Unset /\ payload = Unset

\* argon2id on what the device sealed, with the sealing password
C11_Witness ==
  /\ SealedReturned
  /\ bundle_bytes.ws = 32
  /\ Get(bundle_bytes.root.v, BundleKey.version) = JInt(1)
  /\ Get(bundle_bytes.root.v, BundleKey.kdfAlgorithm) = JStr(SealedText.argon2id)
  /\ Get(bundle_bytes.root.v, BundleKey.salt) = JStr(Base64Encode(SaltBytes))
  /\ Get(bundle_bytes.root.v, BundleKey.encryptedPayload)
       = JStr(Base64Encode(Combined(<< 1, 2, 3, 4 >>)))
  /\ password = SealingPassword
  /\ sealed_result = Err(VerifyError("DecryptionFailed"))
  /\ sran = << "bundle", "version", "kdf" >>

\* what verify_audio_and_manifest returns on the current arguments
VerificationOutcome ==
  LET verdicts == Verdicts
      first == FirstFailing(verdicts)
  IN IF first = 0
     THEN Ok([ manifest |-> verdicts[1].v,
               trust_level |-> compute_trust_level(verdicts[1].v.trust_vectors) ])
     ELSE Err(verdicts[first].err)

\* C12: when the bundle decrypts and the payload's audioData and manifestData
\* decode, verify_and_extract_sealed_bundle returns what verify_audio_and_manifest
\* returns on the decoded bytes: the same error, or the same manifest and trust
\* level together with the verified audio bytes and the payload's audioFilename;
\* verify_sealed_bundle returns that manifest and trust level, or that error.
C12_SealedPathSharesVerification ==
  (SealedReturned /\ payload # Unset) =>
    LET audio == decode_base64(Get(decrypted.root.v, BundleKey.audioData).v)
        file == decode_base64(Get(decrypted.root.v, BundleKey.manifestData).v)
    IN (audio.ok /\ file.ok) =>
         /\ LastStep = "verify"
         /\ audio_bytes = audio.v
         /\ manifest_bytes = Tokens(file.v)
         /\ LET outcome == VerificationOutcome
            IN /\ verify_sealed_bundle(sealed_result) = outcome
               /\ sealed_result.ok = outcome.ok
               /\ ~outcome.ok => sealed_result = outcome
               /\ outcome.ok =>
                    /\ sealed_result.v.manifest = outcome.v.manifest
                    /\ sealed_result.v.trust_level = outcome.v.trust_level
                    /\ sealed_result.v.audio_data = audio.v
                    /\ sealed_result.v.audio_filename
                         = Get(decrypted.root.v, BundleKey.audioFilename).v

\* the bundle the device sealed, opened with its password: Level A and the audio
C12_Witness ==
  /\ SealedReturned /\ LastStep = "verify"
  /\ password = SealingPassword
  /\ sealed_result.ok
  /\ sealed_result.v.trust_level = "A"
  /\ sealed_result.v.audio_data = << 82 >>
  /\ sealed_result.v.audio_filename = SealedText.filename
  /\ verify_sealed_bundle(sealed_result) = result

\* both calls of the canonical encoder produced a canonical text
BothCanonical ==
  previous # Unset /\ previous.canonical_text # Unset /\ canonical_text # Unset

\* C13: two value trees that differ only in the order of object members, at any
\* depth, have the same canonical text; the text lists the members of every object
\* in ascending byte-wise key order, the elements of every array in their order,
\* and has no whitespace between its tokens.
C13_MemberOrderNeverMatters ==
  /\ (BothCanonical /\ SameValue(previous.json_value, json_value))
       => canonical_text = previous.canonical_text
  /\ canonical_text # Unset =>
       LET RECURSIVE Ascending(_)
           \* the keys from the least to the greatest
           Ascending(keys) ==
             IF keys = {} THEN <<>>
             ELSE LET least == CHOOSE k \in keys : \A j \in keys \ { k } : LexLess(k, j)
                  IN << least >> \o Ascending(keys \ { least })
           RECURSIVE Written(_)
           Written(node) ==
             IF node.t = "obj" THEN
               LET keys == Ascending({ node.v[i][1] : i \in 1..Len(node.v) })
               IN << 123 >>
                  \o Join([i \in 1..Len(keys) |->
                             << 34 >> \o keys[i] \o << 34, 58 >>
                             \o Written(Get(node.v, keys[i]))], << 44 >>)
                  \o << 125 >>
             ELSE IF node.t = "arr" THEN
               << 91 >> \o Join([i \in 1..Len(node.v) |-> Written(node.v[i])], << 44 >>)
               \o << 93 >>
             ELSE canonicalize_json(node)
       IN canonical_text = Written(json_value)

\* {"z":{..},"a":"test"} and {"a":"test","z":{..}} with the members of the inner
\* object in two orders: one canonical text
C13_Witness ==
  /\ BothCanonical
  /\ json_value.t = "obj" /\ previous.json_value.t = "obj"
  /\ Len(json_value.v) = 2 /\ Len(previous.json_value.v) = 2
  /\ json_value.v[1][1] = << 122 >>
  /\ previous.json_value.v[1][1] = << 97 >>
  /\ json_value.v[1][2].t = "obj" /\ previous.json_value.v[2][2].t = "obj"
  /\ json_value.v[1][2].v[1][1] # previous.json_value.v[2][2].v[1][1]
  /\ SameValue(previous.json_value, json_value)
  /\ canonical_text = previous.canonical_text
  /\ canonical_text = << 123, 34, 97, 34, 58, 34, 116, 101, 115, 116, 34, 44, 34, 122, 34, 58, 123, 34, 97, 34, 58, 49, 44, 34, 98, 34, 58, 50, 125, 125 >>

\* the second call was made on the canonical text of the first and returned
Recanonicalized ==
  /\ previous # Unset /\ previous.canonical_text # Unset
  /\ document = previous.canonical_text
  /\ cpc = "done"

\* C14: the canonical text of every value tree is parseable JSON, and parsing and
\* canonicalizing it again gives exactly the same text, also when strings and
\* object keys hold quotes, backslashes, slashes or control characters.
C14_CanonicalizationIsIdempotent ==
  Recanonicalized => (canonical_hash.ok /\ canonical_text = document)

\* the tree {"a\"b": 1}: its canonical text {"a"b":1} is not JSON
C14_Witness ==
  /\ Recanonicalized
  /\ previous.json_value = JObj(<< << << 97, 34, 98 >>, JInt(1) >> >>)
  /\ document = << 123, 34, 97, 34, 98, 34, 58, 49, 125 >>
  /\ canonical_hash = Err(VerifyError("ManifestMalformed"))

\* the manifest parses, its schema version is supported and its audio hash matches
ReachesKeyParsing ==
  LET parsed == from_json(manifest_bytes)
  IN /\ parsed.ok
     /\ parsed.v.schema_version <= 1
     /\ sha256_base64(audio_bytes) = parsed.v.audio_hash

\* C15 as stated: every failure to decode or parse the public key or the signature
\* yields SignatureInvalid: a string that is not base64, a length other than 64
\* bytes, a point not on the curve, an invalid scalar.
C15_KeyOrSignatureFailureIsSignatureInvalid ==
  (Returned /\ ReachesKeyParsing) =>
    LET m == from_json(manifest_bytes).v
        key_bytes == decode_base64(m.public_key)
        sig_bytes == decode_base64(m.signature)
        bad_key == ~key_bytes.ok \/ Len(key_bytes.v) # 64 \/ key_bytes.v \notin DeviceKeys
        bad_sig == \/ ~sig_bytes.ok
                   \/ Len(sig_bytes.v) # 64
                   \/ ~ScalarOk(SubSeq(sig_bytes.v, 1, 32))
                   \/ ~ScalarOk(SubSeq(sig_bytes.v, 33, 64))
    IN (bad_key \/ bad_sig) => result = Err(VerifyError("SignatureInvalid"))

\* C15 as the code has it: a publicKey or signature string that is not base64
\* yields the Base64 error of decode_base64; a decoded length other than 64 bytes,
\* a point not on the curve and an invalid scalar yield SignatureInvalid; the key
\* fails at the fourth step and the signature at the sixth, and nothing runs after.
C15_KeyOrSignatureFailureKind ==
  (Returned /\ ReachesKeyParsing) =>
    LET m == from_json(manifest_bytes).v
        key_bytes == decode_base64(m.public_key)
        sig_bytes == decode_base64(m.signature)
        key_step == << "parse", "schema", "hash", "pubkey" >>
        sig_step == << "parse", "schema", "hash", "pubkey", "canon", "sig" >>
    IN IF ~key_bytes.ok
       THEN result = Err(VerifyError("Base64")) /\ ran = key_step
       ELSE IF Len(key_bytes.v) # 64 \/ key_bytes.v \notin DeviceKeys
       THEN result = Err(VerifyError("SignatureInvalid")) /\ ran = key_step
       ELSE IF ~sig_bytes.ok
       THEN result = Err(VerifyError("Base64")) /\ ran = sig_step
       ELSE IF \/ Len(sig_bytes.v) # 64
               \/ ~ScalarOk(SubSeq(sig_bytes.v, 1, 32))
               \/ ~ScalarOk(SubSeq(sig_bytes.v, 33, 64))
       THEN result = Err(VerifyError("SignatureInvalid")) /\ ran = sig_step
       ELSE Len(ran) >= 7

\* the signature of a verified bundle replaced by text that is not base64
C15_Witness ==
  /\ Returned /\ baseOk /\ changed = { "signature" }
  /\ Get(manifest_bytes.root.v, Key.signature) = JStr(Text.junk)
  /\ result = Err(VerifyError("Base64"))
  /\ ran = << "parse", "schema", "hash", "pubkey", "canon", "sig" >>

\* two runs that both failed have exited
BothFailed ==
  /\ previous_exit # Unset /\ exit_status # -1
  /\ ~previous_exit.run_result.ok /\ ~run_result.ok

\* C16 as stated: the error is one of the closed set of kinds, two runs that fail
\* with different kinds exit with different codes, and a failed run never exits
\* with 0.
C16_DistinctExitCodes ==
  /\ ~run_result.ok => run_result.err.kind \in ErrorKinds
  /\ (exit_status # -1 /\ ~run_result.ok) => exit_status # 0
  /\ (BothFailed /\ previous_exit.run_result.err.kind # run_result.err.kind)
       => previous_exit.exit_status # exit_status

\* the kinds that exit with the code of ManifestMalformed
MalformedKinds == { "ManifestMalformed", "Json", "Base64" }

\* C16 as the code has it: the kinds are a closed set and a failed run never exits
\* with 0 (a successful one does); two different kinds exit with different codes
\* unless both are among ManifestMalformed, Json and Base64, which all exit with 3;
\* the version an error carries does not change its code.
C16_ExitCodes ==
  /\ ~run_result.ok => run_result.err.kind \in ErrorKinds
  /\ exit_status # -1 => (exit_status = 0 <=> run_result.ok)
  /\ (exit_status # -1 /\ ~run_result.ok) =>
       (exit_status = 3 <=> run_result.err.kind \in MalformedKinds)
  /\ BothFailed =>
       LET a == previous_exit.run_result.err.kind
           b == run_result.err.kind
       IN previous_exit.exit_status = exit_status
            <=> (a = b \/ { a, b } \subseteq MalformedKinds)

\* a run that failed with Json after one that failed with ManifestMalformed: both
\* exit with 3
C16_Witness ==
  /\ BothFailed
  /\ previous_exit.run_result = Err(VerifyError("ManifestMalformed"))
  /\ run_result = Err(VerifyError("Json"))
  /\ previous_exit.exit_status = 3 /\ exit_status = 3

\* the manifest file cannot be read into the typed manifest: it does not parse, a
\* member is of another type or repeated, or a member other than one of the four
\* optional vectors is missing or null
Malforming ==
  \/ manifest_bytes.ws \notin { 32, 9, 10, 13 }
  \/ defect.what \in { "mistyped", "repeated", "fraction" }
  \/ defect.what \in { "missing", "null" } /\ Len(defect.path) # 2

VectorNames == { "location", "motion", "continuity", "clock" }

Received(bytes) == ParseJson(bytes).v

\* the members of a root object other than "signature"; all of any other root
WithoutSignature(tree) ==
  IF tree.t = "obj"
  THEN JObj(SelectSeq(tree.v, LAMBDA m : m[1] # Key.signature))
  ELSE tree

\* the string under the keys of the path, or the empty string when there is none
StringAt(tree, path) ==
  LET RECURSIVE At(_, _)
      At(node, keys) ==
        IF keys = <<>> THEN (IF node.t = "str" THEN node.v ELSE <<>>)
        ELSE IF node.t = "obj" /\ HasKey(node.v, Head(keys))
             THEN At(Get(node.v, Head(keys)), Tail(keys))
        ELSE IF node.t = "arr" /\ Len(node.v) > 0 THEN At(node.v[1], keys)
        ELSE <<>>
  IN At(tree, path)

\* where a member that must be kept sits: "signature" below the root member "a",
\* "signature" in an object of a root array, "Signature" at the root
KeptPaths ==
  { << << 97 >>, Key.signature >>,
    << << 83, 105, 103, 110, 97, 116, 117, 114, 101 >> >> }

\* C18: the tree that is canonicalized is the received tree without the root
\* member "signature" and with every other member, so two documents that differ
\* only in that member have one canonical text and one digest; a member
\* "signature" below the root or in an object of a root array, and a root member
\* "Signature", are kept, and two documents that differ in its value have
\* different canonical texts; the received bytes are as they were.
C18_OnlyTopLevelSignatureRemoved ==
  /\ cpc \in { "canon", "hash" } \/ (cpc = "done" /\ canonical_hash.ok) =>
       /\ json_value = WithoutSignature(Received(document))
       /\ json_value.t = "obj" => ~HasKey(json_value.v, Key.signature)
  /\ (BothCanonical /\ cpc = "done") =>
       LET first == Received(previous.document)
           second == Received(document)
       IN /\ SameValue(WithoutSignature(first), WithoutSignature(second)) =>
               /\ canonical_text = previous.canonical_text
               /\ canonical_hash = previous.canonical_hash
          /\ \A path \in KeptPaths :
               StringAt(first, path) # StringAt(second, path)
                 => canonical_text # previous.canonical_text
          /\ (first.t = "arr" /\ second.t = "arr"
              /\ StringAt(first, << Key.signature >>) # StringAt(second, << Key.signature >>))
               => canonical_text # previous.canonical_text

\* {"a":1,"signature":"s1"} and {"signature":"s2","a":1}: one canonical text, {"a":1}
C18_Witness ==
  /\ BothCanonical /\ cpc = "done"
  /\ StringAt(Received(previous.document), << Key.signature >>) = << 115, 49 >>
  /\ StringAt(Received(document), << Key.signature >>) = << 115, 50 >>
  /\ Received(document).t = "obj"
  /\ canonical_text = previous.canonical_text
  /\ canonical_text = << 123, 34, 97, 34, 58, 49, 125 >>

\* the text the escape rules prescribe for a string
Escaped(str) ==
  LET hex == << 48, 49, 50, 51, 52, 53, 54, 55, 56, 57, 97, 98, 99, 100, 101, 102 >>
      short == (34 :> 34) @@ (92 :> 92) @@ (47 :> 47)
               @@ (10 :> 110) @@ (13 :> 114) @@ (9 :> 116)
      One(c) ==
        IF c \in DOMAIN short THEN << 92, short[c] >>
        ELSE IF c \in 0..31 \cup 127..159
             THEN << 92, 117, 48, 48, hex[(c \div 16) + 1], hex[(c % 16) + 1] >>
        ELSE << c >>
  IN << 34 >> \o Flatten([i \in 1..Len(str) |-> One(str[i])]) \o << 34 >>

\* C19: the canonical text of a string is the string in double quotes with the
\* quote, the backslash and the slash preceded by a backslash, newline, carriage
\* return and tab as \n, \r, \t, every other control character as \u00XX in
\* lowercase hex and every other character as it is, also as an element of an array
\* and as a member's value; of a number its default formatting (0, -7, 1.0), of a
\* boolean true or false, of null null.
C19_EscapeRules ==
  canonical_text # Unset =>
    /\ json_value.t = "str" => canonical_text = Escaped(json_value.v)
    /\ json_value.t = "num" =>
         canonical_text =
           (CASE json_value.v = [f |-> FALSE, n |-> 0] -> << 48 >>
              [] json_value.v = [f |-> FALSE, n |-> 1] -> << 49 >>
              [] json_value.v = [f |-> FALSE, n |-> -7] -> << 45, 55 >>
              [] json_value.v = [f |-> TRUE, n |-> 1] -> << 49, 46, 48 >>)
    /\ json_value.t = "bool" =>
         canonical_text = (IF json_value.v THEN << 116, 114, 117, 101 >>
                           ELSE << 102, 97, 108, 115, 101 >>)
    /\ json_value.t = "null" => canonical_text = << 110, 117, 108, 108 >>
    /\ (json_value.t = "arr" /\ Len(json_value.v) = 1 /\ json_value.v[1].t = "str") =>
         canonical_text = << 91 >> \o Escaped(json_value.v[1].v) \o << 93 >>
    /\ (json_value.t = "obj" /\ Len(json_value.v) = 1 /\ json_value.v[1][2].t = "str"
        /\ json_value.v[1][1] = << 97 >>) =>
         canonical_text = << 123, 34, 97, 34, 58 >> \o Escaped(json_value.v[1][2].v)
                          \o << 125 >>

\* the string of a quote, a backslash, a slash, newline, carriage return, tab,
\* U+0001, U+001F, U+007F and "a" was canonicalized
C19_Witness ==
  /\ canonical_text # Unset
  /\ json_value.t = "str"
  /\ json_value.v = << 34, 92, 47, 10, 13, 9, 1, 31, 127, 97 >>
  /\ canonical_text =
       << 34, 92, 34, 92, 92, 92, 47, 92, 110, 92, 114, 92, 116,
          92, 117, 48, 48, 48, 49, 92, 117, 48, 48, 49, 102,
          92, 117, 48, 48, 55, 102, 97, 34 >>

\* C20: the digest is SHA-256 of the canonical text of the tree parsed from the
\* received bytes, less the root member "signature"; and two documents whose
\* trees differ anywhere but in that member never have the same canonical text.
C20_CanonicalFormIsInjective ==
  /\ (cpc = "done" /\ canonical_hash.ok) =>
       /\ canonical_text = canonicalize_json(WithoutSignature(Received(document)))
       /\ canonical_hash.v = sha256_bytes(canonical_text)
  /\ (BothCanonical /\ cpc = "done") =>
       (~SameValue(WithoutSignature(Received(previous.document)),
                   WithoutSignature(Received(document)))
          => canonical_text # previous.canonical_text)

\* {"a":1,"b":2} and the object whose only key is a":1,"b with the value 2: two
\* trees, one canonical text and one digest
C20_Witness ==
  /\ BothCanonical /\ cpc = "done"
  /\ Received(previous.document).t = "obj" /\ Received(document).t = "obj"
  /\ Len(Received(previous.document).v) = 2
  /\ Len(Received(document).v) = 1
  /\ Received(document).v[1][1] = << 97, 34, 58, 49, 44, 34, 98 >>
  /\ canonical_text = << 123, 34, 97, 34, 58, 49, 44, 34, 98, 34, 58, 50, 125 >>
  /\ canonical_text = previous.canonical_text
  /\ canonical_hash = previous.canonical_hash

\* the manifest file with schemaVersion 1 in place of its own
AtVersionOne ==
  [ manifest_bytes EXCEPT !.root.v = SetMember(@, Key.schemaVersion, JInt(1)) ]

\* C21: a manifest whose schemaVersion is 1, 0 or negative passes the schema step,
\* and the call ends as it does for version 1: HashMismatch when the audio is not
\* the one recorded, otherwise success after every check, with the level of its
\* trust vectors and the typed manifest of the version-1 file but for the version;
\* a version above 1 is refused with SchemaUnsupported and its number.
C21_VersionsUpToCeilingAlike ==
  Returned =>
    LET version == Get(manifest_bytes.root.v, Key.schemaVersion).v.n
    IN IF version > 1
       THEN /\ result = Err(VersionError("SchemaUnsupported", version))
            /\ ran = << "parse", "schema" >>
       ELSE IF audio_bytes # << 82 >>
       THEN /\ result = Err(VerifyError("HashMismatch"))
            /\ ran = << "parse", "schema", "hash" >>
       ELSE /\ result.ok
            /\ ran = CheckOrder
            /\ result.v.manifest =
                 [ from_json(AtVersionOne).v EXCEPT !.schema_version = version ]
            /\ result.v.trust_level =
                 compute_trust_level(from_json(AtVersionOne).v.trust_vectors)

\* a manifest of version -1 verified like one of version 1, at Level A
C21_Witness ==
  /\ Returned /\ result.ok
  /\ Get(manifest_bytes.root.v, Key.schemaVersion).v.n = -1
  /\ manifest.schema_version = -1
  /\ ran = CheckOrder
  /\ result.v.trust_level = "A"

\* the member of the bundle file at the path
BundleMember(file, path) ==
  IF Len(path) = 1 THEN Get(file.root.v, path[1])
  ELSE Get(Get(file.root.v, path[1]).v, path[2])

\* C22: a call on a bundle that differs from the bundle of the call before only
\* in the value of nonce, createdAt, memoryCostKB or parallelism, with the same
\* password, ends as that call did: the same steps, the same plaintext, the same
\* error or the same manifest, trust level, audio and file name.
C22_InformationalMembersIgnored ==
  (previous_sealed # Unset /\ SealedReturned) =>
    /\ sealed_result = previous_sealed.sealed_result
    /\ sran = previous_sealed.sran
    /\ decrypted = previous_sealed.decrypted

\* the second call, on a bundle whose nonce member is not base64 and is not the
\* nonce in front of the ciphertext, succeeded like the first
C22_Witness ==
  /\ previous_sealed # Unset /\ SealedReturned
  /\ BundleMember(bundle_bytes, << BundleKey.nonce >>).v = Text.junk
  /\ BundleMember(previous_sealed.bundle_bytes, << BundleKey.nonce >>).v
       = Base64Encode(Repeat(7, 12))
  /\ sealed_result.ok
  /\ sealed_result = previous_sealed.sealed_result
  /\ SubSeq(encrypted, 1, 12) = Repeat(7, 12)

\* the defect makes a file not of its shape
Breaking == defect.what \in { "missing", "null", "mistyped", "repeated", "fraction" }

\* the bundle file is not JSON of the sealed-bundle shape
BrokenBundle ==
  \/ bundle_bytes.ws \notin { 32, 9, 10, 13 }
  \/ Breaking /\ defect.path \notin PayloadPaths

\* what was sealed is not JSON of the decrypted-payload shape
BrokenPayload ==
  \/ \E e \in encryptions : e.plaintext.ws \notin { 32, 9, 10, 13 }
  \/ Breaking /\ defect.path \in PayloadPaths

C24_AudioWrittenOnlyAfterVerification ==
  /\ disk # NoDisk =>
       /\ SealedReturned /\ sealed_result.ok
       /\ Returned /\ result.ok /\ ran = CheckOrder
       /\ decrypted # Unset
       /\ \A f \in disk.files :
            /\ disk.dir
            /\ f.name = sealed_result.v.audio_filename
            /\ IsPrefix(f.data, sealed_result.v.audio_data)
  /\ (SealedReturned /\ ~sealed_result.ok) =>
       /\ disk = NoDisk
       /\ extract_pc = "done" => run_result = sealed_result
  /\ (extract_pc = "done" /\ run_result.ok) =>
       /\ disk = [ dir |-> TRUE,
                   files |-> { [ name |-> sealed_result.v.audio_filename,
                                 data |-> sealed_result.v.audio_data ] } ]
       /\ run_result.v = [ manifest |-> sealed_result.v.manifest,
                           trust_level |-> sealed_result.v.trust_level ]

\* a payload that decrypted but holds another audio than the manifest's: run
\* returned HashMismatch and nothing is on the disk
C24_Witness ==
  /\ extract_pc = "done"
  /\ decrypted # Unset /\ audio_bytes = << 82, 73 >>
  /\ sealed_result = Err(VerifyError("HashMismatch"))
  /\ run_result = sealed_result
  /\ disk = NoDisk


(***************************************************************************)
(* The level as a function of the evidence (trust.rs:71-87).               *)
(***************************************************************************)
\* what the manifest file says was captured, as a member of TrustChoices
Captured ==
  [ location |-> HasKey(VectorsMember, Key.location),
    motion |-> HasKey(VectorsMember, Key.motion),
    continuity |->
      IF ~HasKey(VectorsMember, Key.continuity) THEN "absent"
      ELSE IF Get(Get(VectorsMember, Key.continuity).v, Key.uninterrupted) = JBool(TRUE)
           THEN "uninterrupted"
           ELSE "interrupted",
    clock |-> HasKey(VectorsMember, Key.clock) ]

\* more has every piece of evidence less has: the vectors of less are present in
\* more, and a continuity vector is at least as good (absent, then interrupted, then
\* uninterrupted)
NoLessEvidence(less, more) ==
  /\ less.location => more.location
  /\ less.motion => more.motion
  /\ less.clock => more.clock
  /\ \/ less.continuity = more.continuity
     \/ less.continuity = "absent"
     \/ more.continuity = "uninterrupted"

\* the level of the manifest the device writes when tv was captured
LevelOf(tv) == compute_trust_level(TrustVectorsOf(TrustVectorsNode(tv).v))

\* C25: the level is monotone in the evidence under C < B < A: a manifest with one
\* more vector present (location, motion, clock, or continuity with either flag), or
\* with its continuity uninterrupted instead of interrupted, has a level no lower
\* than the one returned, one with less evidence a level no higher; and with
\* continuity absent the level is the one of continuity present but interrupted.
C25_LevelMonotoneInEvidence ==
  Returned =>
    /\ result.ok
    /\ LevelOf(Captured) = result.v.trust_level
    /\ \A other \in TrustChoices :
         /\ NoLessEvidence(Captured, other) =>
              LevelRank(LevelOf(other)) >= LevelRank(result.v.trust_level)
         /\ NoLessEvidence(other, Captured) =>
              LevelRank(LevelOf(other)) <= LevelRank(result.v.trust_level)
    /\ Captured.continuity \in { "absent", "interrupted" } =>
         \A c \in { "absent", "interrupted" } :
           LevelOf([Captured EXCEPT !.continuity = c]) = result.v.trust_level

\* location and motion without a continuity vector: Level B, as with an interrupted
\* one, and Level A once the continuity vector is present and uninterrupted
C25_Witness ==
  /\ Returned /\ result.ok
  /\ Captured = [ location |-> TRUE, motion |-> TRUE, continuity |-> "absent",
                  clock |-> FALSE ]
  /\ result.v.trust_level = "B"
  /\ LevelOf([Captured EXCEPT !.continuity = "interrupted"]) = "B"
  /\ LevelOf([Captured EXCEPT !.continuity = "uninterrupted"]) = "A"
  /\ LevelOf([Captured EXCEPT !.motion = FALSE]) = "C"

====
